---- MODULE Spec2Model ----
(***************************************************************************)
(* Boundary layer of the scylla-rust-wrapper C ABI: ownership disciplines  *)
(* of argconv.rs, the future bridge, the copy-on-write batch state of      *)
(* batch.rs / session.rs and the iterator of query_result.rs.              *)
(*                                                                         *)
(* Each subsystem has its own specification (SpecArc, SpecFuture,          *)
(* SpecBatch, SpecIter) over its own variables; the variables of the other *)
(* subsystems stay at their initial value.                                 *)
(***************************************************************************)
EXTENDS Integers, Sequences, FiniteSets, TLC

VARIABLES
    arc,        \* ArcFFI: per shared object, its strong count and history
    arcLast,    \* ArcFFI: the last operation performed
    fut,        \* future: outcome slot, stored callback, history counters
    futExec,    \* future: the executor task that runs the wrapped computation
    futReg,     \* future: the caller thread that registers the callback
    futW,       \* future: the caller threads that wait
    heap,       \* batch: the Arc<CassBatchState> blocks ever allocated
    batch,      \* batch: the CassBatch handle of the caller
    stmt,       \* batch: the CassStatement handle of the caller
    sess,       \* batch: the session the requests run on
    tasks,      \* batch: the request tasks launched so far
    nMut,       \* batch: the number of caller-side mutations made
    it,         \* iterator: the CassIterator the caller holds
    itRet,      \* iterator: what the last cass_iterator_next returned
    itCalls,    \* iterator: the number of cass_iterator_next calls made on it
    itGot,      \* iterator: the last accessor called in this position, and its result
    cluster,    \* session: the CassCluster the caller configures
    session,    \* session: the RwLock<Option<CassSessionInner>> and who holds it
    futs,       \* session: the futures of connect, close and requests
    ph,         \* profiles: the statement or batch handle and its settings
    profs,      \* profiles: the PerStatementExecProfile objects ever made
    psess,      \* profiles: the session the handle is executed on
    runs,       \* profiles: the executions of the handle
    nSets,      \* profiles: the number of setter calls made on the handle
    conf,       \* configuration: the timeouts and profile map of the CassCluster
    confCall,   \* configuration: the last setter called, its arguments and what it returned
    meta,       \* accessors: the result, row and schema metadata objects the caller reads
    accCall,    \* accessors: the last accessor called, its index and what it returned
    mem,        \* pointers: per ownership discipline, the object behind its tagged pointer
    ptrCall,    \* pointers: the last operation of a discipline, its pointer argument and result
    sobj,       \* session lifetime: the Arc<RwLock<..>> allocation made by cass_session_new
    pend,       \* session lifetime: the futures made on the session and what they met
    contact_points, \* contact points: the cluster's list of contact points
    cpCalls,    \* contact points: the calls of cass_cluster_set_contact_points made so far
    bcHeap,     \* batch calls: the CassBatchState blocks, each with its strong count
    bcBatch,    \* batch calls: the CassBatch handle
    bcStmt,     \* batch calls: the statement handle that is added to the batch
    bcSnaps,    \* batch calls: the states held by requests in flight
    bcCall,     \* batch calls: the last call made on the handles and what it returned
    bcN,        \* batch calls: number of calls made
    tup,        \* tuples: the CassTuple made by the constructor, if any
    tupCall,    \* tuples: the last call and what it returned
    tupN,       \* tuples: number of binds made
    port,       \* port: the cluster's port (u16)
    portCall,   \* port: the last cass_cluster_set_port call and what it returned
    known_nodes, \* port: the nodes given to the session builder by the last build
    portN,      \* port: number of cass_cluster_set_port calls made
    portBuilds, \* port: number of builds made
    clusterData, \* schema: the keyspaces as the driver's cluster data gives them
    schemaMeta  \* schema: the CassSchemaMeta built by the last cass_session_get_schema_meta

arcVars == <<arc, arcLast>>
futVars == <<fut, futExec, futReg, futW>>
batchVars == <<heap, batch, stmt, sess, tasks, nMut>>
iterVars == <<it, itRet, itCalls, itGot>>
sessVars == <<cluster, session, futs>>
profVars == <<ph, profs, psess, runs, nSets>>
confVars == <<conf, confCall>>
accVars == <<meta, accCall>>
ptrVars == <<mem, ptrCall>>
lifeVars == <<sobj, pend>>
cpVars == <<contact_points, cpCalls>>
bcVars == <<bcHeap, bcBatch, bcStmt, bcSnaps, bcCall, bcN>>
tupVars == <<tup, tupCall, tupN>>
portVars == <<port, portCall, known_nodes, portN, portBuilds>>
schemaVars == <<clusterData, schemaMeta>>

vars == <<arc, arcLast, fut, futExec, futReg, futW,
          heap, batch, stmt, sess, tasks, nMut, it, itRet, itCalls, itGot,
          cluster, session, futs, ph, profs, psess, runs, nSets,
          conf, confCall,
          meta, accCall,
          mem, ptrCall,
          sobj, pend,
          contact_points, cpCalls,
          bcHeap, bcBatch, bcStmt, bcSnaps, bcCall, bcN,
          tup, tupCall, tupN,
          port, portCall, known_nodes, portN, portBuilds,
          clusterData, schemaMeta>>

NONE == "none"

\* Option<T> of a value that is not a string: None, Some(v).
None == <<>>
Some(v) == <<v>>

\* What an action of one subsystem leaves alone: the other subsystems.
ArcFrame == UNCHANGED <<futVars, batchVars, iterVars, sessVars, profVars, confVars, accVars, ptrVars, lifeVars, cpVars, bcVars, tupVars, portVars, schemaVars>>
FutFrame == UNCHANGED <<arcVars, batchVars, iterVars, sessVars, profVars, confVars, accVars, ptrVars, lifeVars, cpVars, bcVars, tupVars, portVars, schemaVars>>
BatchFrame == UNCHANGED <<arcVars, futVars, iterVars, sessVars, profVars, confVars, accVars, ptrVars, lifeVars, cpVars, bcVars, tupVars, portVars, schemaVars>>
IterFrame == UNCHANGED <<arcVars, futVars, batchVars, sessVars, profVars, confVars, accVars, ptrVars, lifeVars, cpVars, bcVars, tupVars, portVars, schemaVars>>
SessFrame == UNCHANGED <<arcVars, futVars, batchVars, iterVars, profVars, confVars, accVars, ptrVars, lifeVars, cpVars, bcVars, tupVars, portVars, schemaVars>>
ProfFrame == UNCHANGED <<arcVars, futVars, batchVars, iterVars, sessVars, confVars, accVars, ptrVars, lifeVars, cpVars, bcVars, tupVars, portVars, schemaVars>>
ConfFrame == UNCHANGED <<arcVars, futVars, batchVars, iterVars, sessVars, profVars, accVars, ptrVars, lifeVars, cpVars, bcVars, tupVars, portVars, schemaVars>>
AccFrame == UNCHANGED <<arcVars, futVars, batchVars, iterVars, sessVars, profVars, confVars, ptrVars, lifeVars, cpVars, bcVars, tupVars, portVars, schemaVars>>
PtrFrame == UNCHANGED <<arcVars, futVars, batchVars, iterVars, sessVars, profVars, confVars, accVars, lifeVars, cpVars, bcVars, tupVars, portVars, schemaVars>>
LifeFrame == UNCHANGED <<arcVars, futVars, batchVars, iterVars, sessVars, profVars, confVars, accVars, ptrVars, cpVars, bcVars, tupVars, portVars, schemaVars>>
CpFrame == UNCHANGED <<arcVars, futVars, batchVars, iterVars, sessVars, profVars, confVars, accVars, ptrVars, lifeVars, bcVars, tupVars, portVars, schemaVars>>
BcFrame == UNCHANGED <<arcVars, futVars, batchVars, iterVars, sessVars, profVars, confVars, accVars, ptrVars, lifeVars, cpVars, tupVars, portVars, schemaVars>>
TupFrame == UNCHANGED <<arcVars, futVars, batchVars, iterVars, sessVars, profVars, confVars, accVars, ptrVars, lifeVars, cpVars, bcVars, portVars, schemaVars>>
PortFrame == UNCHANGED <<arcVars, futVars, batchVars, iterVars, sessVars, profVars, confVars, accVars, ptrVars, lifeVars, cpVars, bcVars, tupVars, schemaVars>>
SchemaFrame == UNCHANGED <<arcVars, futVars, batchVars, iterVars, sessVars, profVars, confVars, accVars, ptrVars, lifeVars, cpVars, bcVars, tupVars, portVars>>

(***************************************************************************)
(* Shared-refcounted discipline (argconv.rs, trait ArcFFI)                 *)
(***************************************************************************)

\* The shared handle types that implement ArcFFI.
ArcKinds == {"prepared", "result", "data_type", "retry_policy"}

\* Bound: clone_ref calls per object.
MaxClones == 2

\* Arc::increment_strong_count without the increment (from_raw alone).
IncrementStrongCount_Missing(c) == c

\* Arc::increment_strong_count(ptr) inside ArcFFI::cloned_from_ptr.
IncrementStrongCount(c) == c + 1

\* Dropping one Arc<T>: the count goes down, the value is destroyed at zero.
ArcDrop(a) ==
    [a EXCEPT !.strong = a.strong - 1,
              !.destroyed = IF a.strong - 1 = 0 THEN a.destroyed + 1 ELSE a.destroyed,
              !.releases = a.releases + 1]

ArcStart ==
    /\ arc = [o \in ArcKinds |->
                [created |-> FALSE, strong |-> 0, callerPtrs |-> 0, holders |-> 0,
                 destroyed |-> 0, clones |-> 0, releases |-> 0]]
    /\ arcLast = NONE

\* ArcFFI::into_ptr(Arc::new(..)): the creating allocation, count 1,
\* one owning pointer handed to the caller (cass_retry_policy_default_new, ...).
ArcFFI_into_ptr(o) ==
    /\ ~arc[o].created
    /\ arc' = [arc EXCEPT ![o] = [@ EXCEPT !.created = TRUE, !.strong = 1, !.callerPtrs = 1]]
    /\ arcLast' = "into_ptr"
    /\ ArcFrame

\* ArcFFI::cloned_from_ptr on the caller's pointer: cass_prepared_bind,
\* cass_iterator_from_result, cass_tuple_new_from_data_type.  The new Arc is
\* owned by the created statement / iterator / tuple (a holder).
ArcFFI_cloned_from_ptr(o) ==
    /\ arc[o].callerPtrs > 0
    /\ arc[o].clones < MaxClones
    /\ arc' = [arc EXCEPT ![o] = [@ EXCEPT !.strong = IncrementStrongCount(@),
                                         !.holders = @ + 1,
                                         !.clones = @ + 1]]
    /\ arcLast' = "cloned_from_ptr"
    /\ ArcFrame

\* ArcFFI::as_ref / ArcFFI::as_ptr: a borrow, address only.
ArcFFI_as_ref(o) ==
    /\ arc[o].callerPtrs > 0
    /\ arcLast # "as_ref"
    /\ arc' = arc
    /\ arcLast' = "as_ref"
    /\ ArcFrame

\* ArcFFI::free on the caller's pointer: from_ptr, then drop
\* (cass_prepared_free, cass_result_free, cass_retry_policy_free).
ArcFFI_free(o) ==
    /\ arc[o].callerPtrs > 0
    /\ arc' = [arc EXCEPT ![o] = [ArcDrop(@) EXCEPT !.callerPtrs = @ - 1]]
    /\ arcLast' = "free"
    /\ ArcFrame

\* BoxFFI::free of the statement / iterator / tuple that owns a cloned Arc
\* (cass_iterator_free, cass_tuple_free): the Arc field is dropped.
HolderFree(o) ==
    /\ arc[o].holders > 0
    /\ arc' = [arc EXCEPT ![o] = [ArcDrop(@) EXCEPT !.holders = @ - 1]]
    /\ arcLast' = "holder_free"
    /\ ArcFrame

NextArc ==
    \/ \E o \in ArcKinds : ArcFFI_into_ptr(o)
    \/ \E o \in ArcKinds : ArcFFI_cloned_from_ptr(o)
    \/ \E o \in ArcKinds : ArcFFI_as_ref(o)
    \/ \E o \in ArcKinds : ArcFFI_free(o)
    \/ \E o \in ArcKinds : HolderFree(o)

\* C1: after clone_ref and releases in any order, the value is destroyed
\* exactly once, and only by the release that gives back the last reference
\* (one creating reference plus one per clone_ref); a borrow leaves the
\* count alone, so the count is always 1 + clones - releases.
C1_DestroyedOnceAtLastRelease ==
    \A o \in ArcKinds :
        /\ arc[o].destroyed <= 1
        /\ arc[o].created => arc[o].strong = 1 + arc[o].clones - arc[o].releases
        /\ arc[o].strong = arc[o].callerPtrs + arc[o].holders
        /\ (arc[o].destroyed = 1) <=> (arc[o].created /\ arc[o].releases = arc[o].clones + 1)

\* One clone_ref, two releases, a borrow in between: destroyed once.
C1_Witness ==
    \E o \in ArcKinds :
        arc[o].clones = 1 /\ arc[o].releases = 2 /\ arc[o].destroyed = 1

(***************************************************************************)
(* Asynchronous result bridge (future.rs is not part of the sources at     *)
(* hand; the bridge follows the design's description of it, the wrapped    *)
(* computation follows session.rs)                                         *)
(***************************************************************************)

\* Bound: caller threads waiting on the one future.
NWaiters == 2

\* Bound: wait / wait_timed calls per waiting thread.
MaxWaits == 2

Waiters == 1..NWaiters

PENDING == "Pending"

\* The outcomes a request future resolves with: a value, an operational
\* error, or the synthetic timeout of request_with_timeout.
Outcomes == {"value", "error", "timeout"}

\* The future as make() returns it: Pending, no callback; the computation
\* is scheduled on the executor and running.
FutStart ==
    /\ fut = [slot |-> PENDING, callback |-> NONE, transitions |-> 0,
              cbInvoked |-> 0, cbBy |-> NONE]
    /\ futExec \in [pc : {"running"}, out : {NONE}, cb : {NONE}, timeout : BOOLEAN]
    /\ futReg = [pc |-> "idle", readyAtReg |-> NONE]
    /\ futW = [w \in Waiters |->
                 [pc |-> "idle", mode |-> NONE, obs |-> NONE, calls |-> 0,
                  timeouts |-> 0, pendingAfterReady |-> FALSE]]

\* The wrapped computation finishes on the executor with a value or an error.
ComputationCompletes(o) ==
    /\ futExec.pc = "running"
    /\ o \in {"value", "error"}
    /\ futExec' = [futExec EXCEPT !.pc = "computed", !.out = o]
    /\ UNCHANGED <<fut, futReg, futW>>
    /\ FutFrame

\* request_with_timeout: tokio::time::timeout elapses before the request
\* finishes; the computation's result is the synthetic timeout error.
request_with_timeout_Elapsed ==
    /\ futExec.pc = "running"
    /\ futExec.timeout
    /\ futExec' = [futExec EXCEPT !.pc = "computed", !.out = "timeout"]
    /\ UNCHANGED <<fut, futReg, futW>>
    /\ FutFrame

\* The stored callback as the executor sees it, read outside the mutex
\* before the slot is written.
TakeCallback_Racy(f) == NONE

\* The stored callback, taken under the same mutex that guards the slot.
TakeCallback(f) == f.callback

\* The executor thread performs the Ready transition: under the mutex it
\* writes the outcome and takes the stored callback.
FutureSetReady ==
    /\ futExec.pc = "computed"
    /\ fut' = [fut EXCEPT !.slot = futExec.out,
                          !.callback = NONE,
                          !.transitions = @ + 1]
    /\ futExec' = [futExec EXCEPT !.pc = "transitioned", !.cb = TakeCallback(fut)]
    /\ UNCHANGED <<futReg, futW>>
    /\ FutFrame

\* After the transition the same thread invokes the callback it took, if
\* any, and wakes every blocked waiter.
FutureInvokeAndNotify ==
    /\ futExec.pc = "transitioned"
    /\ fut' = IF futExec.cb # NONE
              THEN [fut EXCEPT !.cbInvoked = @ + 1, !.cbBy = "executor"]
              ELSE fut
    /\ futExec' = [futExec EXCEPT !.pc = "done", !.cb = NONE]
    /\ UNCHANGED <<futReg, futW>>
    /\ FutFrame

\* set_callback, under the mutex: Ready already -> the callback will be
\* invoked by this call; Pending -> it is stored.
FutureSetCallback ==
    /\ futReg.pc = "idle"
    /\ IF fut.slot # PENDING
       THEN /\ futReg' = [pc |-> "invoking", readyAtReg |-> TRUE]
            /\ fut' = fut
       ELSE /\ futReg' = [pc |-> "returned", readyAtReg |-> FALSE]
            /\ fut' = [fut EXCEPT !.callback = "cb"]
    /\ UNCHANGED <<futExec, futW>>
    /\ FutFrame

\* set_callback on a Ready future: the synchronous invocation, then return.
FutureSetCallbackInvoke ==
    /\ futReg.pc = "invoking"
    /\ fut' = [fut EXCEPT !.cbInvoked = @ + 1, !.cbBy = "registrar"]
    /\ futReg' = [futReg EXCEPT !.pc = "returned"]
    /\ UNCHANGED <<futExec, futW>>
    /\ FutFrame

\* wait(handle): the thread blocks.
FutureWait(w) ==
    /\ futW[w].pc = "idle"
    /\ futW[w].calls < MaxWaits
    /\ futW' = [futW EXCEPT ![w] = [@ EXCEPT !.pc = "waiting", !.mode = "wait",
                                            !.calls = @ + 1]]
    /\ UNCHANGED <<fut, futExec, futReg>>
    /\ FutFrame

\* wait_timed(handle, duration): the thread blocks for at most duration.
FutureWaitTimed(w) ==
    /\ futW[w].pc = "idle"
    /\ futW[w].calls < MaxWaits
    /\ futW' = [futW EXCEPT ![w] = [@ EXCEPT !.pc = "waiting", !.mode = "timed",
                                            !.calls = @ + 1]]
    /\ UNCHANGED <<fut, futExec, futReg>>
    /\ FutFrame

\* What a returning waiter does to the slot: takes the outcome out.
SlotAfterWait_Consuming(f) == [f EXCEPT !.slot = PENDING]

\* What a returning waiter does to the slot: nothing, it only reads.
SlotAfterWait(f) == f

\* A blocked wait / wait_timed sees the slot Ready and returns (true).
FutureWaitReturn(w) ==
    /\ futW[w].pc = "waiting"
    /\ fut.slot # PENDING
    /\ futW' = [futW EXCEPT ![w] = [@ EXCEPT !.pc = "idle", !.obs = fut.slot]]
    /\ fut' = SlotAfterWait(fut)
    /\ UNCHANGED <<futExec, futReg>>
    /\ FutFrame

\* wait_timed: the duration elapses while the slot is still Pending; the
\* call returns false.
FutureWaitTimedOut(w) ==
    /\ futW[w].pc = "waiting"
    /\ futW[w].mode = "timed"
    /\ fut.slot = PENDING
    /\ futW' = [futW EXCEPT ![w] =
                  [@ EXCEPT !.pc = "idle", !.timeouts = @ + 1,
                            !.pendingAfterReady =
                                @ \/ (\E v \in Waiters : futW[v].obs # NONE)]]
    /\ UNCHANGED <<fut, futExec, futReg>>
    /\ FutFrame

NextFuture ==
    \/ \E o \in Outcomes : ComputationCompletes(o)
    \/ request_with_timeout_Elapsed
    \/ FutureSetReady
    \/ FutureInvokeAndNotify
    \/ FutureSetCallback
    \/ FutureSetCallbackInvoke
    \/ \E w \in Waiters : FutureWait(w)
    \/ \E w \in Waiters : FutureWaitTimed(w)
    \/ \E w \in Waiters : FutureWaitReturn(w)
    \/ \E w \in Waiters : FutureWaitTimedOut(w)

\* C2: the future makes at most one Pending -> Ready transition and stays
\* Ready with the outcome the computation produced; every wait returns only
\* after that transition, every waiter that returned saw that same outcome,
\* and no timed wait reports Pending once some waiter has seen Ready.
C2_SingleReadyTransition ==
    /\ fut.transitions <= 1
    /\ (fut.slot # PENDING) <=> (fut.transitions = 1)
    /\ fut.slot # PENDING => fut.slot = futExec.out
    /\ \A w \in Waiters :
        /\ futW[w].obs # NONE => (fut.transitions = 1 /\ futW[w].obs = fut.slot)
        /\ ~futW[w].pendingAfterReady

\* All waiting threads have returned from a wait and hold the one outcome.
C2_Witness ==
    /\ fut.slot # PENDING
    /\ \A w \in Waiters : futW[w].obs = fut.slot

\* C3: the registered callback is invoked exactly once: at most once ever;
\* registered on a Ready future, it has run (on the registering thread) when
\* set_callback returns; registered on a Pending future, it is kept until
\* the transition, is not run before it, and has run (on the thread that
\* made the transition) once that thread is done.
C3_CallbackExactlyOnce ==
    /\ fut.cbInvoked <= 1
    /\ fut.cbInvoked = 1 => fut.slot # PENDING
    /\ (futReg.pc = "returned" /\ futReg.readyAtReg = TRUE)
          => (fut.cbInvoked = 1 /\ fut.cbBy = "registrar")
    /\ (futReg.pc = "returned" /\ futReg.readyAtReg = FALSE)
          => /\ fut.cbInvoked = 0 => (fut.callback = "cb" \/ futExec.cb = "cb")
             /\ fut.cbInvoked = 1 => fut.cbBy = "executor"
             /\ futExec.pc = "done" => fut.cbInvoked = 1

\* The callback was stored while Pending and then run by the executor.
C3_Witness ==
    /\ futReg.pc = "returned"
    /\ futReg.readyAtReg = FALSE
    /\ fut.cbInvoked = 1
    /\ fut.cbBy = "executor"

\* C4: a wait_timed that returned false leaves the outcome slot as it was:
\* once the transition has happened the slot holds the computation's outcome,
\* a thread that timed out before and waits again can return, and what it
\* then observes is that outcome.
C4_TimedOutWaitKeepsOutcome ==
    \A w \in Waiters :
        futW[w].timeouts > 0 =>
            /\ fut.transitions = 1 => fut.slot = futExec.out
            /\ (futW[w].pc = "waiting" /\ fut.transitions = 1)
                  => ENABLED FutureWaitReturn(w)
            /\ futW[w].obs # NONE => futW[w].obs = futExec.out

\* A thread whose wait_timed timed out waited again and got the outcome.
C4_Witness ==
    \E w \in Waiters :
        futW[w].timeouts > 0 /\ futW[w].obs # NONE /\ futW[w].obs = fut.slot

(***************************************************************************)
(* Copy-on-write batch state (batch.rs) and the requests that snapshot it  *)
(* (session.rs: cass_session_execute_batch, cass_session_execute)          *)
(***************************************************************************)

\* Bound: caller-side mutations of the batch and statement handles.
MaxMut == 2

\* Bound: requests launched (execute_batch and execute together).
MaxExec == 1

CASS_ERROR_LIB_BAD_PARAMS == "CASS_ERROR_LIB_BAD_PARAMS"
CASS_ERROR_LIB_NO_HOSTS_AVAILABLE == "CASS_ERROR_LIB_NO_HOSTS_AVAILABLE"
CASS_ERROR_LIB_EXECUTION_PROFILE_INVALID == "CASS_ERROR_LIB_EXECUTION_PROFILE_INVALID"

\* CassConsistency arguments: one the driver accepts, one it does not.
ConsistencyInputs == {"QUORUM", "UNKNOWN"}
SerialConsistencyInputs == {"SERIAL", "UNKNOWN"}

\* consistency.try_into().ok(): the values that convert.
ValidConsistency(c) == c \in {"QUORUM", "SERIAL"}

\* cass_batch_set_timestamp arguments.
TimestampInputs == {7}

\* cass_bool_t arguments that change the default (cass_true).
BoolInputs == {1}

\* cass_batch_set_request_timeout arguments (milliseconds).
TimeoutInputs == {10}

\* Execution-profile names a handle may carry; the session knows "p" only.
ProfileNames == {"p", "q"}

\* CassBatchState of cass_batch_new: Batch::new(batch_type), no bound values.
EmptyBatchState ==
    [consistency |-> NONE, serial_consistency |-> NONE, timestamp |-> None,
     is_idempotent |-> FALSE, tracing |-> FALSE, profile_handle |-> NONE,
     statements |-> <<>>, bound_values |-> <<>>]

\* Arc::make_mut's test with the count ignored: always mutate in place.
IsUnique_Always(h, id) == TRUE

\* Arc::make_mut's test with the count ignored: always clone.
IsUnique_Never(h, id) == FALSE

\* Arc::make_mut: the state is uniquely held iff its strong count is 1.
IsUnique(h, id) == h[id].rc = 1

\* Arc::make_mut: the block the Arc points to afterwards.
MakeMutId(h, id) == IF IsUnique(h, id) THEN id ELSE Len(h) + 1

\* Arc::make_mut: the heap afterwards; a shared state is deep-cloned into a
\* new block and the Arc gives up its reference to the old one.
MakeMutHeap(h, id) ==
    IF IsUnique(h, id)
    THEN h
    ELSE Append([h EXCEPT ![id].rc = @ - 1], [rc |-> 1, st |-> h[id].st])

\* Taking the state without a new strong reference (a borrow of the handle's Arc).
ArcClone_Borrow(h, id) == h

\* batch_from_raw.state.clone(): one more strong reference to the same block.
ArcClone(h, id) == [h EXCEPT ![id].rc = @ + 1]

\* Dropping an Arc<CassBatchState>: the block is destroyed at count zero.
ArcRelease(h, id) == [h EXCEPT ![id].rc = @ - 1]


\* After cass_batch_new and cass_statement_new; the session is connected or
\* not, the batch carries no profile or a name not resolved yet.
BatchStart ==
    /\ heap = <<[rc |-> 1, st |-> EmptyBatchState]>>
    /\ batch \in [alive : {TRUE}, state : {1}, timeout : {None},
                  exec_profile : {NONE} \cup ProfileNames]
    /\ stmt = [alive |-> TRUE, query |-> "q1", bound |-> 0, timeout |-> None]
    /\ sess \in [connected : BOOLEAN, exec_profile_map : {{"p"}}]
    /\ tasks = <<>>
    /\ nMut = 0

\* A setter of batch.rs that goes through Arc::make_mut(&mut batch.state)
\* and leaves the inner state st2 behind.
BatchWrite(st2) ==
    LET id == batch.state
        nid == MakeMutId(heap, id) IN
    /\ nMut < MaxMut
    /\ nMut' = nMut + 1
    /\ heap' = [MakeMutHeap(heap, id) EXCEPT ![nid].st = st2]
    /\ batch' = [batch EXCEPT !.state = nid]
    /\ UNCHANGED <<stmt, sess, tasks>>
    /\ BatchFrame

\* A setter that returns before touching the state.
BatchReject(err) ==
    /\ nMut < MaxMut
    /\ nMut' = nMut + 1
    /\ UNCHANGED <<heap, batch, stmt, sess, tasks>>
    /\ BatchFrame

cass_batch_set_consistency(c) ==
    /\ batch.alive
    /\ IF ValidConsistency(c)
       THEN BatchWrite([heap[batch.state].st EXCEPT !.consistency = c])
       ELSE BatchReject(CASS_ERROR_LIB_BAD_PARAMS)

cass_batch_set_serial_consistency(c) ==
    /\ batch.alive
    /\ IF ValidConsistency(c)
       THEN BatchWrite([heap[batch.state].st EXCEPT !.serial_consistency = c])
       ELSE BatchReject(CASS_ERROR_LIB_BAD_PARAMS)

cass_batch_set_timestamp(ts) ==
    /\ batch.alive
    /\ BatchWrite([heap[batch.state].st EXCEPT !.timestamp = Some(ts)])

cass_batch_set_is_idempotent(b) ==
    /\ batch.alive
    /\ BatchWrite([heap[batch.state].st EXCEPT !.is_idempotent = (b # 0)])

cass_batch_set_tracing(b) ==
    /\ batch.alive
    /\ BatchWrite([heap[batch.state].st EXCEPT !.tracing = (b # 0)])

\* Appends the statement's query and a copy of its bound values.
cass_batch_add_statement ==
    /\ batch.alive
    /\ stmt.alive
    /\ BatchWrite([heap[batch.state].st EXCEPT
                      !.statements = Append(@, stmt.query),
                      !.bound_values = Append(@, stmt.bound)])

\* Writes the handle's own field; the inner state is not touched.
cass_batch_set_request_timeout(ms) ==
    /\ batch.alive
    /\ nMut < MaxMut
    /\ nMut' = nMut + 1
    /\ batch' = [batch EXCEPT !.timeout = Some(ms)]
    /\ UNCHANGED <<heap, stmt, sess, tasks>>
    /\ BatchFrame

\* BoxFFI::free: the handle is dropped and with it its Arc to the state.
cass_batch_free ==
    /\ batch.alive
    /\ heap' = ArcRelease(heap, batch.state)
    /\ batch' = [batch EXCEPT !.alive = FALSE]
    /\ UNCHANGED <<stmt, sess, tasks, nMut>>
    /\ BatchFrame

\* Binding a value in the statement handle (the statement's own setters).
StatementBind ==
    /\ stmt.alive
    /\ nMut < MaxMut
    /\ stmt.bound = 0
    /\ nMut' = nMut + 1
    /\ stmt' = [stmt EXCEPT !.bound = 1]
    /\ UNCHANGED <<heap, batch, sess, tasks>>
    /\ BatchFrame

cass_statement_free ==
    /\ stmt.alive
    /\ stmt' = [alive |-> FALSE, query |-> NONE, bound |-> 0, timeout |-> None]
    /\ UNCHANGED <<heap, batch, sess, tasks, nMut>>
    /\ BatchFrame

NewTask(kind, id, st, timeout, profile) ==
    [kind |-> kind, pc |-> "start", state |-> id, captured |-> st,
     timeout |-> timeout, profile |-> profile, handle |-> NONE,
     sent |-> None, result |-> NONE, cloned |-> 0, aliasAtSend |-> FALSE]

\* A task that has ended: its future holds the result, the async block and
\* everything it captured are gone.
EndedTask(r) ==
    [NewTask("ended", 0, None, None, NONE) EXCEPT !.pc = "done", !.result = r]

\* The synchronous part: an alias of the state, copies of the timeout and of
\* the profile; the async block is handed to CassFuture::make_raw.
cass_session_execute_batch ==
    /\ batch.alive
    /\ Len(tasks) < MaxExec
    /\ heap' = ArcClone(heap, batch.state)
    /\ tasks' = Append(tasks, NewTask("batch", batch.state, heap[batch.state].st,
                                      batch.timeout, batch.exec_profile))
    /\ UNCHANGED <<batch, stmt, sess, nMut>>
    /\ BatchFrame

\* The synchronous part: statement_opt.statement.clone() and copies of the
\* timeout and of the profile; nothing of the handle is shared with the task.
cass_session_execute ==
    /\ stmt.alive
    /\ Len(tasks) < MaxExec
    /\ tasks' = Append(tasks, NewTask("statement", 0,
                                      [query |-> stmt.query, bound |-> stmt.bound,
                                       profile_handle |-> NONE],
                                      stmt.timeout, NONE))
    /\ UNCHANGED <<heap, batch, stmt, sess, nMut>>
    /\ BatchFrame

\* What the task owns of the heap once it ends: its Arc is dropped.
TaskDrop(h, t) ==
    IF tasks[t].kind = "batch" THEN ArcRelease(h, tasks[t].state) ELSE h

\* The state the task works on: the block of a batch task, the private
\* clone of a statement task.
TaskState(t) ==
    IF tasks[t].kind = "batch" THEN heap[tasks[t].state].st ELSE tasks[t].captured

\* session_opt.read().await, the is_none() check and
\* get_or_resolve_profile_handle(..).await?
TaskResolve(t) ==
    /\ tasks[t].pc = "start"
    /\ IF ~sess.connected
       THEN /\ tasks' = [tasks EXCEPT
                         ![t] = EndedTask(CASS_ERROR_LIB_NO_HOSTS_AVAILABLE)]
            /\ heap' = TaskDrop(heap, t)
       ELSE IF tasks[t].profile # NONE /\ tasks[t].profile \notin sess.exec_profile_map
       THEN /\ tasks' = [tasks EXCEPT
                         ![t] = EndedTask(CASS_ERROR_LIB_EXECUTION_PROFILE_INVALID)]
            /\ heap' = TaskDrop(heap, t)
       ELSE /\ tasks' = [tasks EXCEPT ![t].pc = "resolved",
                                      ![t].handle = tasks[t].profile]
            /\ heap' = heap
    /\ UNCHANGED <<batch, stmt, sess, nMut>>
    /\ BatchFrame

\* Arc::make_mut(&mut state).batch.set_execution_profile_handle(handle),
\* then session.batch(&state.batch, &state.bound_values) is issued.
TaskSend(t) ==
    /\ tasks[t].pc = "resolved"
    /\ IF tasks[t].kind = "batch"
       THEN LET id == tasks[t].state
                nid == MakeMutId(heap, id)
                st2 == [heap[id].st EXCEPT !.profile_handle = tasks[t].handle] IN
            /\ heap' = [MakeMutHeap(heap, id) EXCEPT ![nid].st = st2]
            /\ tasks' = [tasks EXCEPT ![t].pc = "sending",
                                      ![t].state = nid,
                                      ![t].cloned = @ + (Len(MakeMutHeap(heap, id)) - Len(heap)),
                                      ![t].aliasAtSend = batch.alive /\ batch.state = id,
                                      ![t].sent = Some(st2)]
       ELSE /\ heap' = heap
            /\ tasks' = [tasks EXCEPT ![t].pc = "sending",
                                      ![t].sent = Some([tasks[t].captured EXCEPT
                                                     !.profile_handle = tasks[t].handle])]
    /\ UNCHANGED <<batch, stmt, sess, nMut>>
    /\ BatchFrame

\* What the async block makes of the driver's answer: Ok and Err of
\* session.batch / query / execute both end as a CassResultValue.
DriverAnswers == {"CassResultValue"}

\* The driver answers; the async block ends and drops what it owns.
TaskComplete(t, r) ==
    /\ tasks[t].pc = "sending"
    /\ tasks' = [tasks EXCEPT ![t] = EndedTask(r)]
    /\ heap' = TaskDrop(heap, t)
    /\ UNCHANGED <<batch, stmt, sess, nMut>>
    /\ BatchFrame

\* request_with_timeout: the timeout elapses first; the inner future is
\* dropped with what it owns and the result is the timeout error.
TaskTimeout(t) ==
    /\ tasks[t].pc # "done"
    /\ tasks[t].timeout # None
    /\ tasks' = [tasks EXCEPT ![t] = EndedTask("QueryError(TimeoutError)")]
    /\ heap' = TaskDrop(heap, t)
    /\ UNCHANGED <<batch, stmt, sess, nMut>>
    /\ BatchFrame

NextBatch ==
    \/ \E c \in ConsistencyInputs : cass_batch_set_consistency(c)
    \/ \E c \in SerialConsistencyInputs : cass_batch_set_serial_consistency(c)
    \/ \E ts \in TimestampInputs : cass_batch_set_timestamp(ts)
    \/ \E b \in BoolInputs : cass_batch_set_is_idempotent(b)
    \/ \E b \in BoolInputs : cass_batch_set_tracing(b)
    \/ cass_batch_add_statement
    \/ \E ms \in TimeoutInputs : cass_batch_set_request_timeout(ms)
    \/ cass_batch_free
    \/ StatementBind
    \/ cass_statement_free
    \/ cass_session_execute_batch
    \/ cass_session_execute
    \/ \E t \in DOMAIN tasks : TaskResolve(t)
    \/ \E t \in DOMAIN tasks : TaskSend(t)
    \/ \E t \in DOMAIN tasks : \E r \in DriverAnswers : TaskComplete(t, r)
    \/ \E t \in DOMAIN tasks : TaskTimeout(t)

\* The setters of batch.rs that write the inner state, with arguments they accept.
BatchStateSetter ==
    \/ \E c \in ConsistencyInputs : ValidConsistency(c) /\ cass_batch_set_consistency(c)
    \/ \E c \in SerialConsistencyInputs :
          ValidConsistency(c) /\ cass_batch_set_serial_consistency(c)
    \/ \E ts \in TimestampInputs : cass_batch_set_timestamp(ts)
    \/ \E b \in BoolInputs : cass_batch_set_is_idempotent(b)
    \/ \E b \in BoolInputs : cass_batch_set_tracing(b)
    \/ cass_batch_add_statement

\* The batch tasks that still hold block id of the heap.
Aliases(id) ==
    {t \in DOMAIN tasks : tasks[t].kind = "batch" /\ tasks[t].pc # "done" /\ tasks[t].state = id}

\* C5: a setter of the batch called while no task holds a snapshot of the
\* handle's inner state writes that state in place: the handle points to the
\* same block afterwards and no block was allocated.
C5_InPlaceWithoutSnapshot ==
    [][(nMut' # nMut /\ Aliases(batch.state) = {} /\ BatchStateSetter)
          => (batch'.state = batch.state /\ Len(heap') = Len(heap))]_vars

\* Two setters ran on a batch that was never executed: still the first block.
C5_Witness ==
    /\ tasks = <<>>
    /\ batch.alive
    /\ nMut >= 2
    /\ Len(heap) = 1
    /\ batch.state = 1
    /\ heap[1].st.statements # <<>>
    /\ heap[1].st.tracing

\* Every block's strong count is the number of its holders: the live handle
\* that points to it and the tasks that still hold it.
CountsMatchHolders ==
    \A id \in DOMAIN heap :
        heap[id].rc = Cardinality(Aliases(id))
                        + (IF batch.alive /\ batch.state = id THEN 1 ELSE 0)

\* A task that has not reached its own make_mut still sees the content it
\* was given at the call.
SnapshotsUnchanged ==
    \A t \in DOMAIN tasks :
        (tasks[t].kind = "batch" /\ tasks[t].pc \in {"start", "resolved"})
            => heap[tasks[t].state].st = tasks[t].captured

\* A setter called while a task holds a snapshot allocates one block, gives
\* it to the handle alone, and leaves the snapshot's block as it was.
ForkOnSharedWrite ==
    (nMut' # nMut /\ Aliases(batch.state) # {} /\ BatchStateSetter)
        => /\ Len(heap') = Len(heap) + 1
           /\ batch'.state = Len(heap')
           /\ heap'[batch'.state].rc = 1
           /\ \A t \in DOMAIN tasks' : tasks'[t].state # batch'.state
           /\ heap'[batch.state].st = heap[batch.state].st
           /\ heap'[batch.state].rc = heap[batch.state].rc - 1

\* C6: with one snapshot outstanding, the first mutation of the handle
\* allocates exactly one new block for the handle and leaves the snapshot
\* unchanged; the new block has the handle as its only holder, so that
\* (by the count test of make_mut) later mutations allocate nothing until
\* another snapshot is taken.
C6_OneForkPerSnapshot ==
    /\ [][ForkOnSharedWrite]_vars
    /\ [](CountsMatchHolders /\ SnapshotsUnchanged)
    /\ [][(nMut' # nMut /\ heap[batch.state].rc = 1 /\ BatchStateSetter)
             => Len(heap') = Len(heap)]_vars

\* The handle was mutated twice while a task held the first block: one fork.
C6_Witness ==
    /\ Len(tasks) = 1
    /\ tasks[1].kind = "batch"
    /\ tasks[1].pc = "start"
    /\ tasks[1].state = 1
    /\ batch.alive
    /\ batch.state = 2
    /\ Len(heap) = 2
    /\ nMut = 2
    /\ heap[2].st.tracing
    /\ heap[2].st.statements # <<>>
    /\ heap[1].st = EmptyBatchState

\* What the task hands to the driver: the content captured at the call with
\* the resolved execution profile handle installed.
RequestOf(t) == [tasks[t].captured EXCEPT !.profile_handle = tasks[t].handle]

\* C7: a request runs with the content, request timeout and execution
\* profile its handle had at the call, whatever happens to the handle
\* afterwards: the task's state stays allocated and equal to what was
\* captured until the task sends it, and what is sent is the captured
\* content.
C7_RequestUsesCallTimeState ==
    \A t \in DOMAIN tasks :
        tasks[t].pc # "done" =>
            /\ tasks[t].kind = "batch" => heap[tasks[t].state].rc >= 1
            /\ tasks[t].pc \in {"start", "resolved"}
                   => TaskState(t) = tasks[t].captured /\ tasks[t].sent = None
            /\ tasks[t].pc = "sending"
                   => /\ tasks[t].sent = Some(RequestOf(t))
                      /\ TaskState(t) = RequestOf(t)

\* A batch request is in flight with the empty content it was called with,
\* while the handle has since been given a statement and then freed.
C7_Witness ==
    /\ Len(tasks) = 1
    /\ tasks[1].kind = "batch"
    /\ tasks[1].pc = "sending"
    /\ tasks[1].captured.statements = <<>>
    /\ tasks[1].sent = Some(RequestOf(1))
    /\ ~batch.alive
    /\ \E id \in DOMAIN heap : heap[id].st.statements # <<>>

\* C8: executing a batch whose handle is not mutated meanwhile deep-clones
\* nothing: where the handle is alive and still points to the block the task
\* was given, the task sends without having allocated a block.
C8_NoDeepCloneOnCommonPath ==
    \A t \in DOMAIN tasks :
        (tasks[t].kind = "batch" /\ tasks[t].pc = "sending" /\ tasks[t].aliasAtSend)
            => tasks[t].cloned = 0

\* A task sends its own copy while the handle, never mutated, keeps block 1.
C8_Witness ==
    /\ Len(tasks) = 1
    /\ tasks[1].kind = "batch"
    /\ tasks[1].pc = "sending"
    /\ tasks[1].aliasAtSend
    /\ tasks[1].cloned = 1
    /\ tasks[1].state = 2
    /\ batch.alive
    /\ batch.state = 1
    /\ nMut = 0

(***************************************************************************)
(* Iterators (query_result.rs: CassIterator, its constructors,             *)
(* cass_iterator_next, cass_iterator_free)                                 *)
(***************************************************************************)

\* The largest number of elements of an iterated container.
MaxCount == 2

\* The calls of cass_iterator_next explored on one iterator: enough to pass
\* the end of the largest container twice.
MaxAdvance == MaxCount + 2

Counts == 0 .. MaxCount

\* What a CassValue handed to a constructor holds.
ValueKinds == {"list", "set", "map", "tuple", "udt", "scalar", "null"}

\* No iterator: a constructor returned null, or the iterator was freed.
NoIterator ==
    [alive |-> FALSE, variant |-> NONE, source |-> NONE, rows |-> FALSE,
     count |-> 0, position |-> None, table |-> [columns |-> 0, views |-> 0]]

\* A boxed iterator as every constructor builds it: position None.
NewIterator(variant, source, rows, count) ==
    [alive |-> TRUE, variant |-> variant, source |-> source, rows |-> rows,
     count |-> count, position |-> None, table |-> [columns |-> 0, views |-> 0]]

IterStart ==
    /\ it = NoIterator
    /\ itRet = None
    /\ itCalls = 0
    /\ itGot = None

\* What a constructor leaves with the caller: the iterator r, or none.
Construct(r) ==
    /\ it' = r
    /\ itRet' = None
    /\ itCalls' = 0
    /\ itGot' = None
    /\ IterFrame

\* rows is None for a result that is not a rows result.
cass_iterator_from_result(rows, n) ==
    /\ ~it.alive
    /\ Construct(NewIterator("CassResultIterator", "from_result", rows,
                          IF rows THEN n ELSE 0))

cass_iterator_from_row(n) ==
    /\ ~it.alive
    /\ Construct(NewIterator("CassRowIterator", "from_row", TRUE, n))

cass_value_is_collection(kind) == kind \in {"list", "set", "map"}

cass_value_item_count(kind, n) ==
    IF kind \in {"list", "map", "set", "tuple", "udt"} THEN n ELSE 0

MapIterator(kind, n) ==
    IF kind = "map"
        THEN NewIterator("CassMapIterator", "from_map", TRUE, n)
        ELSE NoIterator

cass_iterator_from_map(kind, n) ==
    /\ ~it.alive
    /\ Construct(MapIterator(kind, n))

cass_iterator_from_collection(kind, n) ==
    /\ ~it.alive
    /\ Construct(IF ~cass_value_is_collection(kind) THEN NoIterator
              ELSE IF MapIterator(kind, n).alive THEN MapIterator(kind, n)
              ELSE NewIterator("CassCollectionIterator", "from_collection", TRUE,
                               cass_value_item_count(kind, n)))

cass_iterator_from_tuple(kind, n) ==
    /\ ~it.alive
    /\ Construct(IF kind = "tuple"
                  THEN NewIterator("CassCollectionIterator", "from_tuple", TRUE, n)
                  ELSE NoIterator)

cass_iterator_fields_from_user_type(kind, n) ==
    /\ ~it.alive
    /\ Construct(IF kind = "udt"
                  THEN NewIterator("CassUdtIterator", "fields_from_user_type", TRUE, n)
                  ELSE NoIterator)

cass_iterator_keyspaces_from_schema_meta(n) ==
    /\ ~it.alive
    /\ Construct(NewIterator("CassSchemaMetaIterator", "keyspaces_from_schema_meta", TRUE, n))

cass_iterator_tables_from_keyspace_meta(n) ==
    /\ ~it.alive
    /\ Construct(NewIterator("CassKeyspaceMetaTableIterator", "tables_from_keyspace_meta",
                          TRUE, n))

cass_iterator_materialized_views_from_keyspace_meta(n) ==
    /\ ~it.alive
    /\ Construct(NewIterator("CassKeyspaceMetaViewIterator",
                          "materialized_views_from_keyspace_meta", TRUE, n))

cass_iterator_user_types_from_keyspace_meta(n) ==
    /\ ~it.alive
    /\ Construct(NewIterator("CassKeyspaceMetaUserTypeIterator",
                          "user_types_from_keyspace_meta", TRUE, n))

\* The CassTableMeta an iterator borrows: the sizes of its two maps.
TableMeta(nc, nv) == [columns |-> nc, views |-> nv]

cass_iterator_columns_from_table_meta(nc, nv) ==
    /\ ~it.alive
    /\ Construct([NewIterator("CassTableMetaIterator", "columns_from_table_meta", TRUE, nc)
                    EXCEPT !.table = TableMeta(nc, nv)])

cass_iterator_materialized_views_from_table_meta(nc, nv) ==
    /\ ~it.alive
    /\ Construct([NewIterator("CassTableMetaIterator", "materialized_views_from_table_meta",
                            TRUE, nv)
                    EXCEPT !.table = TableMeta(nc, nv)])

cass_iterator_columns_from_materialized_view_meta(n) ==
    /\ ~it.alive
    /\ Construct(NewIterator("CassViewMetaIterator", "columns_from_materialized_view_meta",
                          TRUE, n))

\* position.map_or(0, |prev_pos| prev_pos + 1), on a position one bit wide.
NewPos_Wrapping(position) ==
    IF position = None THEN 0 ELSE (position[1] + 1) % 2

\* position.map_or(0, |prev_pos| prev_pos + 1)
NewPos(position) ==
    IF position = None THEN 0 ELSE position[1] + 1

\* new_pos <= count
HasMore_Inclusive(i, new_pos) ==
    IF i.variant = "CassResultIterator" /\ ~i.rows THEN FALSE ELSE new_pos <= i.count

\* What cass_iterator_next returns: new_pos < count, and false for a result
\* iterator whose result has no rows.
HasMore(i, new_pos) ==
    IF i.variant = "CassResultIterator" /\ ~i.rows THEN FALSE ELSE new_pos < i.count

cass_iterator_next ==
    /\ it.alive
    /\ itCalls < MaxAdvance
    /\ it' = [it EXCEPT !.position = Some(NewPos(it.position))]
    /\ itRet' = Some(HasMore(it, NewPos(it.position)))
    /\ itCalls' = itCalls + 1
    /\ itGot' = None
    /\ IterFrame

cass_iterator_free ==
    /\ it.alive
    /\ it' = NoIterator
    /\ itRet' = None
    /\ itCalls' = 0
    /\ itGot' = None
    /\ IterFrame

CASS_OK == "CASS_OK"

\* container.get(position) / iter().nth(position) on a container of len
\* entries, behind the match on position: an entry or nothing.
GetAt(position, len) ==
    IF position # None /\ position[1] < len THEN "element" ELSE "null"

\* An accessor returns ret to the caller; the iterator is only read.
Returned(accessor, ret) ==
    /\ itGot' = Some([accessor |-> accessor, ret |-> ret])
    /\ UNCHANGED <<it, itRet, itCalls>>
    /\ IterFrame

cass_iterator_get_row ==
    /\ it.alive
    /\ Returned("get_row",
                IF it.variant = "CassResultIterator"
                    THEN GetAt(it.position, IF it.rows THEN it.count ELSE 0)
                    ELSE "null")

cass_iterator_get_column ==
    /\ it.alive
    /\ Returned("get_column",
                IF it.variant = "CassRowIterator"
                    THEN GetAt(it.position, it.count)
                    ELSE "null")

\* present: whether the tuple field at the position holds a value.
cass_iterator_get_value(present) ==
    /\ it.alive
    /\ Returned("get_value",
                IF it.variant # "CassCollectionIterator" THEN "null"
                ELSE IF it.source = "from_tuple" /\ ~present THEN "null"
                ELSE GetAt(it.position, it.count))

cass_iterator_get_map_key ==
    /\ it.alive
    /\ Returned("get_map_key",
                IF it.variant = "CassMapIterator"
                    THEN GetAt(it.position, it.count)
                    ELSE "null")

cass_iterator_get_map_value ==
    /\ it.alive
    /\ Returned("get_map_value",
                IF it.variant = "CassMapIterator"
                    THEN GetAt(it.position, it.count)
                    ELSE "null")

cass_iterator_get_user_type_field_name ==
    /\ it.alive
    /\ Returned("get_user_type_field_name",
                IF it.variant = "CassUdtIterator"
                       /\ GetAt(it.position, it.count) = "element"
                    THEN CASS_OK
                    ELSE CASS_ERROR_LIB_BAD_PARAMS)

\* present: whether the field at the position holds a value.
cass_iterator_get_user_type_field_value(present) ==
    /\ it.alive
    /\ Returned("get_user_type_field_value",
                IF it.variant # "CassUdtIterator" \/ ~present THEN "null"
                ELSE GetAt(it.position, it.count))

cass_iterator_get_keyspace_meta ==
    /\ it.alive
    /\ Returned("get_keyspace_meta",
                IF it.variant = "CassSchemaMetaIterator"
                    THEN GetAt(it.position, it.count)
                    ELSE "null")

cass_iterator_get_table_meta ==
    /\ it.alive
    /\ Returned("get_table_meta",
                IF it.variant = "CassKeyspaceMetaTableIterator"
                    THEN GetAt(it.position, it.count)
                    ELSE "null")

cass_iterator_get_user_type ==
    /\ it.alive
    /\ Returned("get_user_type",
                IF it.variant = "CassKeyspaceMetaUserTypeIterator"
                    THEN GetAt(it.position, it.count)
                    ELSE "null")

\* A table iterator indexes the table's columns, a view iterator the view's.
cass_iterator_get_column_meta ==
    /\ it.alive
    /\ Returned("get_column_meta",
                IF it.variant = "CassTableMetaIterator"
                    THEN GetAt(it.position, it.table.columns)
                ELSE IF it.variant = "CassViewMetaIterator"
                    THEN GetAt(it.position, it.count)
                ELSE "null")

\* A keyspace view iterator indexes the keyspace's views, a table iterator
\* the table's views.
cass_iterator_get_materialized_view_meta ==
    /\ it.alive
    /\ Returned("get_materialized_view_meta",
                IF it.variant = "CassKeyspaceMetaViewIterator"
                    THEN GetAt(it.position, it.count)
                ELSE IF it.variant = "CassTableMetaIterator"
                    THEN GetAt(it.position, it.table.views)
                ELSE "null")

NextIter ==
    \/ \E rows \in BOOLEAN : \E n \in Counts : cass_iterator_from_result(rows, n)
    \/ \E n \in Counts : cass_iterator_from_row(n)
    \/ \E k \in ValueKinds : \E n \in Counts : cass_iterator_from_collection(k, n)
    \/ \E k \in ValueKinds : \E n \in Counts : cass_iterator_from_tuple(k, n)
    \/ \E k \in ValueKinds : \E n \in Counts : cass_iterator_from_map(k, n)
    \/ \E k \in ValueKinds : \E n \in Counts : cass_iterator_fields_from_user_type(k, n)
    \/ \E n \in Counts : cass_iterator_keyspaces_from_schema_meta(n)
    \/ \E n \in Counts : cass_iterator_tables_from_keyspace_meta(n)
    \/ \E n \in Counts : cass_iterator_materialized_views_from_keyspace_meta(n)
    \/ \E n \in Counts : cass_iterator_user_types_from_keyspace_meta(n)
    \/ \E nc \in Counts : \E nv \in Counts : cass_iterator_columns_from_table_meta(nc, nv)
    \/ \E nc \in Counts : \E nv \in Counts :
          cass_iterator_materialized_views_from_table_meta(nc, nv)
    \/ \E n \in Counts : cass_iterator_columns_from_materialized_view_meta(n)
    \/ cass_iterator_next
    \/ cass_iterator_free
    \/ cass_iterator_get_row
    \/ cass_iterator_get_column
    \/ \E present \in BOOLEAN : cass_iterator_get_value(present)
    \/ cass_iterator_get_map_key
    \/ cass_iterator_get_map_value
    \/ cass_iterator_get_user_type_field_name
    \/ \E present \in BOOLEAN : cass_iterator_get_user_type_field_value(present)
    \/ cass_iterator_get_keyspace_meta
    \/ cass_iterator_get_table_meta
    \/ cass_iterator_get_user_type
    \/ cass_iterator_get_column_meta
    \/ cass_iterator_get_materialized_view_meta

\* The number of elements the iterator runs over.
Elements == IF it.rows THEN it.count ELSE 0

\* The last cass_iterator_next returned false.
Exhausted == itRet = Some(FALSE)

\* C9 as stated, taken for iterators over at least one element: a fresh
\* iterator advanced exactly count times is Exhausted.
C9_ExhaustedAfterCountAdvances ==
    (it.alive /\ Elements >= 1 /\ itCalls = Elements) => Exhausted

\* C9 (amended): on a fresh iterator over count elements, of every variant,
\* each of the first count advances returns true and leaves the iterator at
\* the next element; the (count+1)-th advance is the first to return false
\* (Exhausted), and every advance after it returns false too.
C9_ExhaustedAfterCountPlusOneAdvances ==
    it.alive =>
        /\ itCalls = 0 => (it.position = None /\ itRet = None)
        /\ (1 <= itCalls /\ itCalls <= Elements)
              => (itRet = Some(TRUE) /\ it.position = Some(itCalls - 1))
        /\ itCalls > Elements
              => (Exhausted /\ it.position = Some(itCalls - 1))

\* An iterator over two elements has just been advanced for the third time.
C9_Witness ==
    /\ it.alive
    /\ it.count = 2
    /\ itCalls = 3
    /\ it.position = Some(2)
    /\ Exhausted

\* C10: once cass_iterator_next has returned false on an iterator, the next
\* call on it returns false again; an iterator over no element (a result
\* iterator without rows included) has returned false from its first call on.
C10_ExhaustedIsTerminal ==
    /\ [][(itCalls' = itCalls + 1 /\ Exhausted) => Exhausted']_vars
    /\ []((it.alive /\ Elements = 0 /\ itCalls >= 1) => Exhausted)

\* A result iterator over a result without rows was advanced twice.
C10_Witness ==
    /\ it.alive
    /\ it.variant = "CassResultIterator"
    /\ ~it.rows
    /\ itCalls = 2
    /\ Exhausted

\* cass_iterator_next was never called on the iterator.
Unstarted == it.alive /\ itCalls = 0

\* The accessors that return a pointer to an element, or null.
PointerAccessors ==
    {"get_row", "get_column", "get_value", "get_map_key", "get_map_value",
     "get_user_type_field_value", "get_keyspace_meta", "get_table_meta",
     "get_user_type", "get_column_meta", "get_materialized_view_meta"}

\* The constructors whose elements an accessor is meant to return.
MatchingSources(accessor) ==
    CASE accessor = "get_row" -> {"from_result"}
      [] accessor = "get_column" -> {"from_row"}
      [] accessor = "get_value" -> {"from_collection", "from_tuple"}
      [] accessor \in {"get_map_key", "get_map_value"} -> {"from_map"}
      [] accessor \in {"get_user_type_field_name", "get_user_type_field_value"}
            -> {"fields_from_user_type"}
      [] accessor = "get_keyspace_meta" -> {"keyspaces_from_schema_meta"}
      [] accessor = "get_table_meta" -> {"tables_from_keyspace_meta"}
      [] accessor = "get_user_type" -> {"user_types_from_keyspace_meta"}
      [] accessor = "get_column_meta"
            -> {"columns_from_table_meta", "columns_from_materialized_view_meta"}
      [] accessor = "get_materialized_view_meta"
            -> {"materialized_views_from_keyspace_meta",
                "materialized_views_from_table_meta"}

\* C11: an accessor that returns an element pointer, called on an iterator
\* that is Unstarted or Exhausted, returns null, whatever the iterator.
C11_NullWhenUnstartedOrExhausted ==
    (itGot # None /\ itGot[1].accessor \in PointerAccessors /\ (Unstarted \/ Exhausted))
        => itGot[1].ret = "null"

\* An iterator over the views of a table without views is Exhausted after
\* its first advance, and cass_iterator_get_column_meta hands out a column.
C11_Witness ==
    /\ it.source = "materialized_views_from_table_meta"
    /\ it.count = 0
    /\ it.table.columns = 1
    /\ itCalls = 1
    /\ Exhausted
    /\ itGot = Some([accessor |-> "get_column_meta", ret |-> "element"])

\* C12: an accessor that returns an element pointer, called on an iterator
\* made by a constructor it does not belong to, returns null in every state
\* of the iterator.
C12_NullOnOtherVariant ==
    (itGot # None /\ itGot[1].accessor \in PointerAccessors
                  /\ it.source \notin MatchingSources(itGot[1].accessor))
        => itGot[1].ret = "null"

\* An iterator over the columns of a table stands on its first column, and
\* cass_iterator_get_materialized_view_meta hands out a view of the table.
C12_Witness ==
    /\ it.source = "columns_from_table_meta"
    /\ it.count = 2
    /\ it.table.views = 1
    /\ it.position = Some(0)
    /\ itRet = Some(TRUE)
    /\ itGot = Some([accessor |-> "get_materialized_view_meta", ret |-> "element"])

\* C13: no accessor answers a call on an iterator of another constructor, or
\* on an Unstarted or Exhausted iterator, with an error status.
C13_NeverAnErrorStatus ==
    (itGot # None /\ (\/ it.source \notin MatchingSources(itGot[1].accessor)
                      \/ Unstarted
                      \/ Exhausted))
        => itGot[1].ret # CASS_ERROR_LIB_BAD_PARAMS

\* cass_iterator_get_user_type_field_name was called on a fresh iterator over
\* the fields of a user type and returned CASS_ERROR_LIB_BAD_PARAMS.
C13_Witness ==
    /\ it.source = "fields_from_user_type"
    /\ it.count = 2
    /\ Unstarted
    /\ itGot = Some([accessor |-> "get_user_type_field_name",
                     ret |-> CASS_ERROR_LIB_BAD_PARAMS])

(***************************************************************************)
(* Cluster, session slot and the futures that use it (session.rs:          *)
(* connect, connect_fut, cass_session_close, the requests; cluster.rs:     *)
(* build_session_builder, cass_cluster_set_execution_profile)              *)
(***************************************************************************)

\* Bound: futures launched on the session (connect, close, requests).
MaxFuts == 3

\* The profile name registered on the cluster, and the profiles given for it.
ClusterProfileNames == {"p"}
ProfileVersions == {"v1", "v2"}

\* What is read through a pointer to a freed cluster.
FREED == "freed"

\* A HashMap<ExecProfileName, CassExecProfile> without entries.
EmptyProfileMap == [n \in ClusterProfileNames |-> NONE]

\* cass_cluster_new: no profile registered.
NewCluster ==
    [alive |-> TRUE, session_builder |-> "builder", execution_profile_map |-> EmptyProfileMap,
     client_id |-> "client_id"]

\* The memory of the cluster after cass_cluster_free.
FreedCluster ==
    [alive |-> FALSE, session_builder |-> FREED,
     execution_profile_map |-> [n \in ClusterProfileNames |-> FREED], client_id |-> FREED]

\* cass_session_new: RwLock::new(None); nobody holds the lock.
SessStart ==
    /\ cluster = NewCluster
    /\ session = [inner |-> None, writer |-> 0, readers |-> {}, queue |-> <<>>]
    /\ futs = <<>>

cass_cluster_set_execution_profile(name, profile) ==
    /\ cluster.alive
    /\ cluster' = [cluster EXCEPT !.execution_profile_map[name] = profile]
    /\ UNCHANGED <<session, futs>>
    /\ SessFrame

cass_cluster_free ==
    /\ cluster.alive
    /\ cluster' = FreedCluster
    /\ UNCHANGED <<session, futs>>
    /\ SessFrame

\* CassExecProfile::build(..).into_handle(): the handle built from a registered profile.
BuildHandle(profile) ==
    CASE profile = "v1" -> "handle_v1"
      [] profile = "v2" -> "handle_v2"
      [] profile = NONE -> NONE
      [] OTHER -> FREED

\* connect_fut's loop over exec_profile_builder_map: a handle for every entry.
BuildHandles(map) == [n \in ClusterProfileNames |-> BuildHandle(map[n])]

\* What connect() takes from the cluster before it makes the future, were the
\* map built afresh instead of cloned.
Snapshot_WithoutMap(c) ==
    [builder |-> c.session_builder, map |-> EmptyProfileMap, client_id |-> c.client_id]

\* connect(): build_session_builder(cluster) clones the builder's fields and
\* cluster.execution_profile_map().clone() copies the map, both inside the call.
Snapshot(c) ==
    [builder |-> c.session_builder, map |-> c.execution_profile_map,
     client_id |-> c.client_id]

\* What was captured for a future that captures nothing of the cluster.
NoSnapshot == [builder |-> NONE, map |-> EmptyProfileMap, client_id |-> NONE]

\* CassFuture::make_raw: the future starts, it has not asked for the lock.
NewFut(kind, captured) ==
    [kind |-> kind, pc |-> "start", captured |-> captured, read |-> NoSnapshot,
     after_free |-> FALSE, result |-> NONE]

\* The place of a new future: that of a freed one, else a new place.
FreeSlots == {i \in DOMAIN futs : futs[i].pc = "freed"}

LaunchFut(f) ==
    /\ IF FreeSlots # {}
         THEN futs' = [futs EXCEPT ![CHOOSE i \in FreeSlots : \A j \in FreeSlots : i <= j] = f]
         ELSE Len(futs) < MaxFuts /\ futs' = Append(futs, f)
    /\ UNCHANGED <<cluster, session>>
    /\ SessFrame

cass_session_connect ==
    /\ cluster.alive
    /\ LaunchFut(NewFut("connect", Snapshot(cluster)))

cass_session_close ==
    /\ Len(futs) > 0
    /\ LaunchFut(NewFut("close", NoSnapshot))

\* cass_session_execute, cass_session_execute_batch and cass_session_prepare,
\* as far as the session slot is concerned.
RequestKinds == {"execute", "execute_batch", "prepare"}

SessionRequest(kind) ==
    /\ kind \in RequestKinds
    /\ LaunchFut(NewFut(kind, NoSnapshot))

\* tokio RwLock, were a writer admitted next to readers.
CanWrite_IgnoringReaders == session.writer = 0

\* tokio RwLock::write(): granted when nobody holds the lock.
CanWrite == session.writer = 0 /\ session.readers = {}

\* tokio RwLock::read(): granted when no writer holds the lock.
CanRead == session.writer = 0

\* session_opt.write().await of connect_fut and of cass_session_close.
WriteAcquire(i) ==
    /\ futs[i].kind \in {"connect", "close"}
    /\ futs[i].pc = "start"
    /\ CanWrite
    /\ session' = [session EXCEPT !.writer = i]
    /\ futs' = [futs EXCEPT ![i].pc = "locked"]
    /\ UNCHANGED cluster
    /\ SessFrame

\* session_opt.read().await of the requests.
ReadAcquire(i) ==
    /\ futs[i].kind \in RequestKinds
    /\ futs[i].pc = "start"
    /\ CanRead
    /\ session' = [session EXCEPT !.readers = @ \cup {i}]
    /\ futs' = [futs EXCEPT ![i].pc = "locked"]
    /\ UNCHANGED cluster
    /\ SessFrame

\* session_guard.is_some(), were the check to pass on any slot.
is_some_Never(inner) == FALSE

\* connect_fut: session_guard.is_some().
is_some(inner) == inner # None

\* session_guard.is_none(), were the check to pass on any slot.
is_none_Never(inner) == FALSE

\* The requests and cass_session_close: session_guard.is_none().
is_none(inner) == inner = None

CASS_ERROR_LIB_UNABLE_TO_CONNECT == "CASS_ERROR_LIB_UNABLE_TO_CONNECT"
CASS_ERROR_LIB_UNABLE_TO_CLOSE == "CASS_ERROR_LIB_UNABLE_TO_CLOSE"
ConnectErrors == {"CASS_ERROR_LIB_NO_HOSTS_AVAILABLE"}

\* What the connect future works with, were it to read the cluster when it runs.
ConnectInputs_Borrowed(f) ==
    [builder |-> cluster.session_builder, map |-> cluster.execution_profile_map,
     client_id |-> cluster.client_id]

\* What the connect future works with: the values moved into it by connect().
ConnectInputs(f) == f.captured

\* The future ends: the guard is dropped, the result is stored.
\* Whether the future j asks for the write side of the lock.
WantsWrite(j) == futs[j].kind \in {"connect", "close"}

\* tokio RwLock, release: the permits given back go to the waiters in the
\* order they queued: a writer at the head when nobody holds the lock, the
\* readers at the head while no writer holds it.
RECURSIVE Grant(_)
Grant(l) ==
    IF l.queue = <<>> THEN l
    ELSE LET h == Head(l.queue) IN
         IF WantsWrite(h)
           THEN IF l.writer = 0 /\ l.readers = {}
                  THEN [l EXCEPT !.writer = h, !.queue = Tail(l.queue)]
                  ELSE l
           ELSE IF l.writer = 0
                  THEN Grant([l EXCEPT !.readers = @ \cup {h}, !.queue = Tail(l.queue)])
                  ELSE l

\* The future ends: the result is stored, the guard is dropped and the lock
\* goes to those waiting for it.
FutDone(i, inner, read, result) ==
    LET l == Grant([inner |-> inner,
                    writer |-> IF session.writer = i THEN 0 ELSE session.writer,
                    readers |-> session.readers \ {i},
                    queue |-> session.queue])
        granted == {session.queue[k] : k \in 1..(Len(session.queue) - Len(l.queue))} IN
    /\ session' = l
    /\ futs' = IF granted = {}
                 THEN [futs EXCEPT ![i].pc = "done", ![i].read = read,
                                   ![i].after_free = ~cluster.alive, ![i].result = result]
                 ELSE [j \in DOMAIN futs |->
                         IF j = i
                           THEN [futs[j] EXCEPT !.pc = "done", !.read = read,
                                                !.after_free = ~cluster.alive,
                                                !.result = result]
                           ELSE IF j \in granted THEN [futs[j] EXCEPT !.pc = "locked"]
                           ELSE futs[j]]
    /\ UNCHANGED cluster
    /\ SessFrame

\* The slot after a failed build, were the failure recorded in it.
SlotAfterError_Marked(inner) ==
    Some([session |-> "failed", exec_profile_map |-> EmptyProfileMap,
          client_id |-> NONE, by |-> 0])

\* session_builder.build().await.map_err(..)?: the error returns before
\* '*session_guard = Some(..)', so the slot keeps what it held.
SlotAfterError(inner) == inner

\* connect_fut after the write lock: refuse if there is a session, else build
\* the handles and the session from what was captured, and store them.
connect_fut(i, built) ==
    /\ futs[i].kind = "connect"
    /\ futs[i].pc = "locked"
    /\ IF is_some(session.inner)
         THEN FutDone(i, session.inner, NoSnapshot, CASS_ERROR_LIB_UNABLE_TO_CONNECT)
         ELSE LET in == ConnectInputs(futs[i]) IN
              IF built
                THEN FutDone(i, Some([session |-> in.builder,
                                      exec_profile_map |-> BuildHandles(in.map),
                                      client_id |-> in.client_id,
                                      by |-> i]),
                             in, CASS_OK)
                ELSE \E e \in ConnectErrors :
                         FutDone(i, SlotAfterError(session.inner), in, e)

\* The future of cass_session_close after the write lock.
close_fut(i) ==
    /\ futs[i].kind = "close"
    /\ futs[i].pc = "locked"
    /\ IF is_none(session.inner)
         THEN FutDone(i, session.inner, NoSnapshot, CASS_ERROR_LIB_UNABLE_TO_CLOSE)
         ELSE FutDone(i, None, NoSnapshot, CASS_OK)

\* The future of a request after the read lock.
request_fut(i) ==
    /\ futs[i].kind \in RequestKinds
    /\ futs[i].pc = "locked"
    /\ IF is_none(session.inner)
         THEN FutDone(i, session.inner, NoSnapshot, CASS_ERROR_LIB_NO_HOSTS_AVAILABLE)
         ELSE FutDone(i, session.inner, NoSnapshot, "CassResultValue")

\* tokio RwLock, first poll of read(), were a reader let in past a queued
\* writer.
Grantable_Barging(i) ==
    IF WantsWrite(i) THEN session.writer = 0 /\ session.readers = {} /\ session.queue = <<>>
    ELSE session.writer = 0

\* tokio RwLock, first poll of write() / read(): granted at once when the lock
\* allows it and nobody is queued; a queued writer has taken the permits
\* that were left, so whoever comes after it queues behind it.
Grantable(i) ==
    /\ session.queue = <<>>
    /\ IF WantsWrite(i) THEN session.writer = 0 /\ session.readers = {}
       ELSE session.writer = 0

\* The first poll of a future: session_opt.write().await or
\* session_opt.read().await takes the lock or joins the queue.
Poll(i) ==
    /\ futs[i].pc = "start"
    /\ IF Grantable(i)
         THEN /\ session' = IF WantsWrite(i) THEN [session EXCEPT !.writer = i]
                            ELSE [session EXCEPT !.readers = @ \cup {i}]
              /\ futs' = [futs EXCEPT ![i].pc = "locked"]
         ELSE /\ session' = [session EXCEPT !.queue = Append(@, i)]
              /\ futs' = [futs EXCEPT ![i].pc = "queued"]
    /\ UNCHANGED cluster
    /\ SessFrame

\* cass_future_free of the future of a finished request.
FreedFut == [NewFut("freed", NoSnapshot) EXCEPT !.pc = "freed"]

RequestFutureFree(i) ==
    /\ futs[i].kind \in RequestKinds
    /\ futs[i].pc = "done"
    /\ futs' = [futs EXCEPT ![i] = FreedFut]
    /\ UNCHANGED <<cluster, session>>
    /\ SessFrame

\* What the runtime does with the task of the future i.
FutStep(i) ==
    \/ Poll(i)
    \/ \E built \in BOOLEAN : connect_fut(i, built)
    \/ close_fut(i)
    \/ request_fut(i)

\* Connect, close and requests on one session under the lock's queue, the
\* caller freeing the futures of finished requests and making new ones. The
\* three kinds of request take the lock alike; one kind is run here.
NextSessionFair ==
    \/ cass_session_connect
    \/ cass_session_close
    \/ SessionRequest("execute_batch")
    \/ \E i \in DOMAIN futs : RequestFutureFree(i)
    \/ \E i \in DOMAIN futs : Poll(i)
    \/ \E i \in DOMAIN futs, built \in BOOLEAN : connect_fut(i, built)
    \/ \E i \in DOMAIN futs : close_fut(i)
    \/ \E i \in DOMAIN futs : request_fut(i)

\* The runtime polls every task it was given until the task ends; a request
\* that holds the session ends.
FairSession == \A i \in 1..MaxFuts : WF_vars(i \in DOMAIN futs /\ FutStep(i))

NextSession ==
    \/ \E n \in ClusterProfileNames, v \in ProfileVersions :
           cass_cluster_set_execution_profile(n, v)
    \/ cass_cluster_free
    \/ cass_session_connect
    \/ cass_session_close
    \/ \E k \in RequestKinds : SessionRequest(k)
    \/ \E i \in DOMAIN futs : WriteAcquire(i)
    \/ \E i \in DOMAIN futs : ReadAcquire(i)
    \/ \E i \in DOMAIN futs, built \in BOOLEAN : connect_fut(i, built)
    \/ \E i \in DOMAIN futs : close_fut(i)
    \/ \E i \in DOMAIN futs : request_fut(i)

(***************************************************************************)
(* Per-statement execution profiles and retry policies (session.rs:        *)
(* resolve_exec_profile, get_or_resolve_profile_handle and the execute     *)
(* paths; the setters of the statement and batch handles)                  *)
(***************************************************************************)

\* Bound: setter calls on the handle.
MaxSets == 2

\* Bound: executions of the handle.
MaxRuns == 2

\* The maps a connected session may hold, by the names registered; the name
\* "q" is registered nowhere.
SessionMaps == {{}, {"p"}}

\* The retry policy set on the statement or batch itself
\* (cass_retry_policy_downgrading_consistency_new).
RetryPolicies == {"DowngradingConsistency"}

\* cass_cluster_set_retry_policy(cluster, fallthrough): the session default.
SessionDefaultPolicy == "Fallthrough"

\* cass_execution_profile_set_retry_policy(profile, default): the policy of
\* every registered profile.
ProfilePolicy == "Default"

\* PerStatementExecProfile::new_unresolved(name).
Unresolved(name) == [state |-> "Unresolved", name |-> name, handle |-> NONE]

\* A handle after cass_statement_new / cass_batch_new.
NewHandle(kind) ==
    [kind |-> kind, exec_profile |-> None, retry_policy |-> NONE, call |-> None]

\* A setter call with its argument and the status it returned.
SetterCall(op, arg, ret) == Some([op |-> op, arg |-> arg, ret |-> ret])

\* A statement or a batch, with or without a retry policy of its own, on a
\* connected session.
ProfStart ==
    /\ ph \in {[NewHandle(k) EXCEPT !.retry_policy = policy] :
                  k \in {"statement", "batch"}, policy \in RetryPolicies \cup {NONE}}
    /\ profs = <<>>
    /\ psess \in [connected : {TRUE}, exec_profile_map : SessionMaps]
    /\ runs = <<>>
    /\ nSets = 0

\* The handle while no statement or batch is being worked with.
ProfIdle ==
    /\ ph = NewHandle("statement")
    /\ profs = <<>>
    /\ psess = [connected |-> FALSE, exec_profile_map |-> {}]
    /\ runs = <<>>
    /\ nSets = 0

\* cass_session_close followed by cass_session_connect with a cluster holding
\* the names of map; or cass_session_close alone. Both take the write lock:
\* no execution is between its read().await and its end.
Reconnect(connected, map) ==
    /\ \A r \in DOMAIN runs : runs[r].pc \in {"start", "done"}
    /\ psess' = [connected |-> connected, exec_profile_map |-> IF connected THEN map ELSE {}]
    /\ psess' # psess
    /\ UNCHANGED <<ph, profs, runs, nSets>>
    /\ ProfFrame

\* cass_statement_set_execution_profile / cass_batch_set_execution_profile,
\* were the null name to leave the profile in place.
ProfileForName_KeepOnNull(name) ==
    IF name = NONE THEN ph.exec_profile ELSE Some(Len(profs) + 1)

\* The exec_profile a name gives: None for the null (or empty) name, else a
\* new PerStatementExecProfile holding the name.
ProfileForName(name) ==
    IF name = NONE THEN None ELSE Some(Len(profs) + 1)

set_execution_profile(name) ==
    /\ nSets < MaxSets
    /\ nSets' = nSets + 1
    /\ ph' = [ph EXCEPT !.exec_profile = ProfileForName(name),
                        !.call = SetterCall("set_execution_profile", name, CASS_OK)]
    /\ profs' = IF name = NONE THEN profs ELSE Append(profs, Unresolved(name))
    /\ UNCHANGED <<psess, runs>>
    /\ ProfFrame

\* cass_statement_set_retry_policy / cass_batch_set_retry_policy; the null
\* policy unsets it.
set_retry_policy(policy) ==
    /\ nSets < MaxSets
    /\ nSets' = nSets + 1
    /\ ph' = [ph EXCEPT !.retry_policy = policy,
                        !.call = SetterCall("set_retry_policy", policy, CASS_OK)]
    /\ UNCHANGED <<profs, psess, runs>>
    /\ ProfFrame

\* cass_session_execute / cass_session_execute_batch, the synchronous part:
\* the statement (with its retry policy) is cloned, exec_profile.clone()
\* shares the PerStatementExecProfile with the handle.
ExecuteCall ==
    /\ Len(runs) < MaxRuns
    /\ runs' = Append(runs, [pc |-> "start", exec_profile |-> ph.exec_profile,
                             retry_policy |-> ph.retry_policy, seen |-> NONE,
                             handle |-> NONE, applied |-> NONE, result |-> NONE])
    /\ UNCHANGED <<ph, profs, psess, nSets>>
    /\ ProfFrame

RunEnds(r, result) ==
    runs' = [runs EXCEPT ![r].pc = "done", ![r].result = result]

\* The read guard is taken; a session that is not connected ends the run.
\* get_or_resolve_profile_handle: no profile gives no handle; else the
\* profile is read, it holds a name or a handle.
ExecuteRead(r) ==
    /\ runs[r].pc = "start"
    /\ IF ~psess.connected
         THEN RunEnds(r, CASS_ERROR_LIB_NO_HOSTS_AVAILABLE)
         ELSE IF runs[r].exec_profile = None
           THEN runs' = [runs EXCEPT ![r].pc = "read", ![r].seen = "None"]
           ELSE runs' = [runs EXCEPT ![r].pc = "read",
                                     ![r].seen = profs[runs[r].exec_profile[1]].state]
    /\ UNCHANGED <<ph, profs, psess, nSets>>
    /\ ProfFrame

\* resolve_exec_profile, were a name not in the map answered with a handle.
Lookup_AnyName(name) == name

\* resolve_exec_profile: self.exec_profile_map.get(name), no handle for a
\* name that is not in the map.
Lookup(name) == IF name \in psess.exec_profile_map THEN name ELSE NONE

\* The handle the run goes on with, were a cached handle looked up again.
HandleOfRun_Relooked(r) ==
    IF runs[r].seen = "None" THEN NONE
    ELSE Lookup(profs[runs[r].exec_profile[1]].name)

\* The handle the run goes on with: none without a profile, the cached one
\* of a resolved profile, the one looked up for an unresolved name.
HandleOfRun(r) ==
    CASE runs[r].seen = "None" -> NONE
      [] runs[r].seen = "Resolved" -> profs[runs[r].exec_profile[1]].handle
      [] OTHER -> Lookup(profs[runs[r].exec_profile[1]].name)

\* The profile object after a lookup: a failure returns through `?` before
\* any write, a success stores the handle in place of the name.
AfterLookup(prof, h) ==
    IF h = NONE THEN prof
    ELSE [prof EXCEPT !.state = "Resolved", !.handle = h]

\* The retry policy the driver applies, were the profile to come first.
EffectivePolicy_ProfileFirst(policy, handle) ==
    IF handle # NONE THEN ProfilePolicy
    ELSE IF policy # NONE THEN policy ELSE SessionDefaultPolicy

\* The retry policy the driver applies to a request: the statement's own,
\* else that of its execution profile handle, else the session default.
EffectivePolicy(policy, handle) ==
    IF policy # NONE THEN policy
    ELSE IF handle # NONE THEN ProfilePolicy ELSE SessionDefaultPolicy

\* The rest of the run: an unresolved name is looked up and the handle
\* cached, set_execution_profile_handle(handle) on the run's own statement,
\* the request is made and the run ends.
ExecuteResolve(r) ==
    /\ runs[r].pc = "read"
    /\ LET h == HandleOfRun(r)
           o == runs[r].exec_profile[1] IN
       IF runs[r].seen = "None"
         THEN /\ runs' = [runs EXCEPT ![r].pc = "done", ![r].result = "CassResultValue",
                                      ![r].applied = EffectivePolicy(runs[r].retry_policy, NONE)]
              /\ profs' = profs
         ELSE IF h = NONE
           THEN /\ RunEnds(r, CASS_ERROR_LIB_EXECUTION_PROFILE_INVALID)
                /\ profs' = IF runs[r].seen = "Resolved"
                              THEN profs
                              ELSE [profs EXCEPT ![o] = AfterLookup(profs[o], h)]
           ELSE /\ runs' = [runs EXCEPT ![r].pc = "done", ![r].result = "CassResultValue",
                                        ![r].handle = h,
                                        ![r].applied = EffectivePolicy(runs[r].retry_policy, h)]
                /\ profs' = IF runs[r].seen = "Resolved"
                              THEN profs
                              ELSE [profs EXCEPT ![o] = AfterLookup(profs[o], h)]
    /\ UNCHANGED <<ph, psess, nSets>>
    /\ ProfFrame

NextProfile ==
    \/ \E c \in BOOLEAN, map \in SessionMaps : Reconnect(c, map)
    \/ \E name \in ProfileNames \cup {NONE} : set_execution_profile(name)
    \/ \E policy \in RetryPolicies \cup {NONE} : set_retry_policy(policy)
    \/ ExecuteCall
    \/ \E r \in DOMAIN runs : ExecuteRead(r)
    \/ \E r \in DOMAIN runs : ExecuteResolve(r)

\* The timeout of the task t elapses in this step: its future gets the
\* timeout error.
TimeoutFires(t) ==
    /\ tasks[t].pc # "done"
    /\ tasks'[t].result = "QueryError(TimeoutError)"

\* C22: when the timeout of a request elapses, the operation under way goes
\* on: the task stays where it was and keeps the state it works on.
C22_TimeoutLeavesOperationRunning ==
    [][\A t \in DOMAIN tasks :
         TimeoutFires(t) => (tasks'[t].pc = tasks[t].pc /\ heap' = heap)]_vars

\* The timeout elapsed on a batch request that had forked the state for its
\* own use and was sending it: the fork is gone, nothing holds it.
C22_Witness ==
    /\ batch.alive
    /\ batch.state = 1
    /\ Len(heap) = 2
    /\ heap[2].rc = 0
    /\ \E t \in DOMAIN tasks : tasks[t].result = "QueryError(TimeoutError)"

(***************************************************************************)
(* Claims about the session and the cluster                                *)
(***************************************************************************)

\* The connect future that stored the session now in the slot.
Connector == futs[session.inner[1].by]

\* A connect call was made in this step; its future is the last of futs'.
ConnectCalled ==
    /\ Len(futs') = Len(futs) + 1
    /\ futs'[Len(futs')].kind = "connect"

\* The slot's content is replaced only when a connect or close future ends.
SlotWrittenByWriter ==
    \E i \in DOMAIN futs :
        /\ futs[i].kind \in {"connect", "close"}
        /\ futs[i].pc = "locked"
        /\ futs'[i].pc = "done"

\* C14: the profile map of a connected session is built from the cluster's
\* map as it was when the connect call was made; a later registration or
\* replacement on the cluster leaves the session as it is, and only a connect
\* call made afterwards takes the new map.
C14_SessionMapIsConnectTimeSnapshot ==
    /\ [][ConnectCalled =>
            futs'[Len(futs')].captured.map = cluster.execution_profile_map]_vars
    /\ [][cluster' # cluster => session' = session]_vars
    /\ [][session'.inner # session.inner => SlotWrittenByWriter]_vars
    /\ [](session.inner # None =>
            session.inner[1].exec_profile_map = BuildHandles(Connector.captured.map))

\* A session re-connected after a registration holds the profile registered
\* before the second connect call, and not the replacement made after it.
C14_Witness ==
    /\ session.inner # None
    /\ cluster.alive
    /\ cluster.execution_profile_map["p"] = "v2"
    /\ session.inner[1].exec_profile_map["p"] = "handle_v1"
    /\ \E j \in 1..(session.inner[1].by - 1) :
           /\ futs[j].kind = "connect"
           /\ futs[j].result = CASS_OK
           /\ futs[j].captured.map["p"] = NONE

\* The connect future i has built, or tried to build, a session.
ConnectRan(i) ==
    /\ futs[i].kind = "connect"
    /\ futs[i].pc = "done"
    /\ futs[i].result # CASS_ERROR_LIB_UNABLE_TO_CONNECT

\* A snapshot none of whose parts is freed memory.
NothingFreed(snap) ==
    /\ snap.builder # FREED
    /\ \A n \in ClusterProfileNames : snap.map[n] # FREED

\* C19: a connect future works only with what its call took from the cluster;
\* when the cluster is freed after the call and before the future runs, the
\* future reads no freed memory and a session it stores holds none.
C19_ConnectFutureNeverReadsCluster ==
    /\ \A i \in DOMAIN futs :
           ConnectRan(i) =>
               /\ futs[i].read = futs[i].captured
               /\ NothingFreed(futs[i].read)
    /\ session.inner # None =>
           /\ session.inner[1].session # FREED
           /\ \A n \in ClusterProfileNames :
                  session.inner[1].exec_profile_map[n] # FREED

\* The cluster was freed between a connect call and the run of its future,
\* and the future connected the session with a registered profile.
C19_Witness ==
    /\ ~cluster.alive
    /\ session.inner # None
    /\ Connector.after_free
    /\ Connector.result = CASS_OK
    /\ session.inner[1].exec_profile_map["p"] = "handle_v1"

\* The connect and close futures that hold the slot, between write().await
\* and their end.
SlotWriters ==
    {i \in DOMAIN futs : futs[i].kind \in {"connect", "close"} /\ futs[i].pc = "locked"}

\* The requests that use the session, between read().await and their end.
SlotUsers ==
    {i \in DOMAIN futs : futs[i].kind \in RequestKinds /\ futs[i].pc = "locked"}

\* C20: while a connect or close future holds the session slot, it is the only
\* connect or close that holds it and no request is using the session.
C20_ConnectCloseExclusive ==
    SlotWriters # {} => (Cardinality(SlotWriters) = 1 /\ SlotUsers = {})

\* Two requests use a connected session at the same time.
C20_Witness ==
    /\ session.inner # None
    /\ Cardinality(SlotUsers) >= 2
    /\ \E i \in SlotUsers : futs[i].kind = "execute"
    /\ \E i \in SlotUsers : futs[i].kind # "execute"

\* The future i ends in this step.
FutEnds(i) == futs[i].pc = "locked" /\ futs'[i].pc = "done"

\* C29: a connect future that finds a session in the slot ends with
\* CASS_ERROR_LIB_UNABLE_TO_CONNECT and leaves the slot as it is (session,
\* profile map, client id); a connect future ends with CASS_OK only on an
\* empty slot, and a filled slot is emptied only by a close future that
\* ends with CASS_OK.
C29_ConnectOnConnectedRefused ==
    /\ [][\A i \in DOMAIN futs :
            (FutEnds(i) /\ futs[i].kind = "connect" /\ session.inner # None) =>
                /\ futs'[i].result = CASS_ERROR_LIB_UNABLE_TO_CONNECT
                /\ session'.inner = session.inner]_vars
    /\ [][\A i \in DOMAIN futs :
            (FutEnds(i) /\ futs[i].kind = "connect" /\ futs'[i].result = CASS_OK) =>
                session.inner = None]_vars
    /\ [][(session.inner # None /\ session'.inner = None) =>
            \E i \in DOMAIN futs :
                FutEnds(i) /\ futs[i].kind = "close" /\ futs'[i].result = CASS_OK]_vars

\* A second connect was refused while the session of the first, made with a
\* registered profile, is still in the slot.
C29_Witness ==
    /\ session.inner # None
    /\ session.inner[1].exec_profile_map["p"] = "handle_v1"
    /\ session.inner[1].client_id = "client_id"
    /\ \E i \in DOMAIN futs :
           /\ i > session.inner[1].by
           /\ futs[i].kind = "connect"
           /\ futs[i].result = CASS_ERROR_LIB_UNABLE_TO_CONNECT

\* C31: a connect whose session build fails ends with the build's error and
\* leaves the slot empty and the lock released; a connect future that finds
\* the slot empty, after a failed connect as well, is never refused with
\* CASS_ERROR_LIB_UNABLE_TO_CONNECT: it builds, and ends with CASS_OK or with
\* the error of its own build.
C31_FailedConnectLeavesSlotEmpty ==
    /\ [][\A i \in DOMAIN futs :
            (FutEnds(i) /\ futs[i].kind = "connect"
                 /\ futs'[i].result \in ConnectErrors) =>
                /\ session.inner = None
                /\ session'.inner = None
                /\ session'.writer # i
                /\ i \notin session'.readers]_vars
    /\ [][\A i \in DOMAIN futs :
            (FutEnds(i) /\ futs[i].kind = "connect" /\ session.inner = None) =>
                futs'[i].result \in ConnectErrors \cup {CASS_OK}]_vars

\* The first connect failed in its build, the second connected the session.
C31_Witness ==
    /\ Len(futs) >= 2
    /\ futs[1].kind = "connect" /\ futs[1].result \in ConnectErrors
    /\ futs[2].kind = "connect" /\ futs[2].result = CASS_OK
    /\ session.inner # None
    /\ session.inner[1].by = 2
    /\ session.writer = 0

\* The connect futures that installed a session.
Installers ==
    {i \in DOMAIN futs :
        futs[i].kind = "connect" /\ futs[i].pc = "done" /\ futs[i].result = CASS_OK}

\* No close has emptied the slot so far.
NoCloseSucceeded ==
    \A i \in DOMAIN futs : futs[i].kind = "close" => futs[i].result # CASS_OK

\* C32: of the connects made on one session with no close in between, at
\* most one installs a session; every connect future that gets the slot
\* after one has installed ends with CASS_ERROR_LIB_UNABLE_TO_CONNECT and
\* leaves the installed session in the slot.
C32_AtMostOneConnectInstalls ==
    /\ [](NoCloseSucceeded =>
            /\ Cardinality(Installers) <= 1
            /\ \A i \in Installers :
                   session.inner # None /\ session.inner[1].by = i)
    /\ [][\A i \in DOMAIN futs :
            (FutEnds(i) /\ futs[i].kind = "connect" /\ Installers # {}
                 /\ NoCloseSucceeded /\ NoCloseSucceeded') =>
                /\ futs'[i].result = CASS_ERROR_LIB_UNABLE_TO_CONNECT
                /\ session'.inner = session.inner
                /\ Installers' = Installers]_vars

\* Three connects were made at once; the second one got the slot first and
\* installed its session, the first and the third were refused.
C32_Witness ==
    /\ Len(futs) = 3
    /\ \A i \in 1..3 : futs[i].kind = "connect" /\ futs[i].pc = "done"
    /\ Installers = {2}
    /\ futs[1].result = CASS_ERROR_LIB_UNABLE_TO_CONNECT
    /\ futs[3].result = CASS_ERROR_LIB_UNABLE_TO_CONNECT
    /\ session.inner # None /\ session.inner[1].by = 2

\* C30: on an empty slot a request future ends with
\* CASS_ERROR_LIB_NO_HOSTS_AVAILABLE and a close future with
\* CASS_ERROR_LIB_UNABLE_TO_CLOSE, and the slot stays empty.
C30_NotConnectedErrors ==
    [][\A i \in DOMAIN futs :
         (FutEnds(i) /\ session.inner = None /\ futs[i].kind # "connect") =>
             /\ futs[i].kind \in RequestKinds
                    => futs'[i].result = CASS_ERROR_LIB_NO_HOSTS_AVAILABLE
             /\ futs[i].kind = "close"
                    => futs'[i].result = CASS_ERROR_LIB_UNABLE_TO_CLOSE
             /\ session'.inner = None]_vars

\* After a connect and a close, a prepare found no session.
C30_Witness ==
    /\ session.inner = None
    /\ Len(futs) = 3
    /\ futs[1].kind = "connect" /\ futs[1].result = CASS_OK
    /\ futs[2].kind = "close" /\ futs[2].result = CASS_OK
    /\ futs[3].kind = "prepare" /\ futs[3].result = CASS_ERROR_LIB_NO_HOSTS_AVAILABLE

\* C21: every close future ends: connect, close and requests on one session
\* never block each other for good, and requests made again and again while
\* a close waits do not keep it waiting for ever.
C21_CloseCompletes ==
    \A i \in 1..MaxFuts :
        (i \in DOMAIN futs /\ futs[i].kind = "close")
            ~> (i \in DOMAIN futs /\ futs[i].kind = "close" /\ futs[i].pc = "done")

\* A close waits in the queue behind a request that holds the session, and
\* a request made after the close waits behind it.
C21_Witness ==
    /\ Len(session.queue) = 2
    /\ futs[session.queue[1]].kind = "close"
    /\ futs[session.queue[2]].kind \in RequestKinds
    /\ session.readers # {}

(***************************************************************************)
(* Claims about execution profiles and retry policies                      *)
(***************************************************************************)

\* The run r does the rest of its work in this step: lookup or cached
\* handle, request, end.
ResolveStep(r) == runs[r].pc = "read" /\ runs'[r].pc = "done"

\* The profile object the run r shares with the handle it was made from.
ProfileOf(r) == runs[r].exec_profile[1]

\* C15: a run that found an unresolved name ends with
\* CASS_ERROR_LIB_EXECUTION_PROFILE_INVALID exactly when the name is not in
\* the connected session's map, and after that failure the profile object
\* still holds the same unresolved name and no handle; no other run ends
\* with that error.
C15_InvalidIffNameAbsent ==
    /\ [][\A r \in DOMAIN runs :
            (ResolveStep(r) /\ runs[r].seen = "Unresolved") =>
                LET name == profs[ProfileOf(r)].name IN
                /\ (runs'[r].result = CASS_ERROR_LIB_EXECUTION_PROFILE_INVALID)
                       <=> (name \notin psess.exec_profile_map)
                /\ runs'[r].result = CASS_ERROR_LIB_EXECUTION_PROFILE_INVALID
                       => profs'[ProfileOf(r)] = Unresolved(name)]_vars
    /\ [](\A r \in DOMAIN runs :
            runs[r].result = CASS_ERROR_LIB_EXECUTION_PROFILE_INVALID
                => runs[r].seen = "Unresolved")

\* The handle's profile failed to resolve in one run and, after the session
\* was connected again with the name registered, resolved in a later run.
C15_Witness ==
    /\ ph.exec_profile # None
    /\ profs[ph.exec_profile[1]].state = "Resolved"
    /\ \E r1, r2 \in DOMAIN runs :
           /\ r1 < r2
           /\ runs[r1].exec_profile = ph.exec_profile
           /\ runs[r2].exec_profile = ph.exec_profile
           /\ runs[r1].result = CASS_ERROR_LIB_EXECUTION_PROFILE_INVALID
           /\ runs[r2].result = "CassResultValue"
           /\ runs[r2].seen = "Unresolved"

\* A profile name, not the null name, was set on the handle in this step.
NameSet ==
    /\ nSets' = nSets + 1
    /\ ph'.call[1].op = "set_execution_profile"
    /\ ph'.call[1].arg # NONE

\* The null name was set on the handle in this step.
NullNameSet ==
    /\ nSets' = nSets + 1
    /\ ph'.call[1].op = "set_execution_profile"
    /\ ph'.call[1].arg = NONE

\* An execution was called in this step; its run is the last of runs'.
ExecuteCalled == Len(runs') = Len(runs) + 1

\* C16: a name set on the handle is held unresolved, and a profile object
\* changes only when a run resolves it; a run that finds the name unresolved
\* on a session that has the name stores the handle in the object and uses
\* it; a run that finds a handle uses that handle, whatever the session now
\* holds, and leaves the object as it is.
C16_ResolvedOnceThenCached ==
    /\ [][NameSet =>
            /\ ph'.exec_profile # None
            /\ profs'[ph'.exec_profile[1]] = Unresolved(ph'.call[1].arg)]_vars
    /\ [][\A o \in DOMAIN profs :
            profs'[o] # profs[o] =>
                \E r \in DOMAIN runs :
                    /\ ResolveStep(r)
                    /\ runs[r].exec_profile = Some(o)
                    /\ runs[r].seen = "Unresolved"]_vars
    /\ [][\A r \in DOMAIN runs :
            (/\ ResolveStep(r)
             /\ runs[r].seen = "Unresolved"
             /\ profs[ProfileOf(r)].name \in psess.exec_profile_map) =>
                /\ profs'[ProfileOf(r)].state = "Resolved"
                /\ profs'[ProfileOf(r)].handle = profs[ProfileOf(r)].name
                /\ runs'[r].handle = profs'[ProfileOf(r)].handle]_vars
    /\ [][\A r \in DOMAIN runs :
            (ResolveStep(r) /\ runs[r].seen = "Resolved") =>
                /\ runs'[r].handle = profs[ProfileOf(r)].handle
                /\ runs'[r].result = "CassResultValue"
                /\ profs' = profs]_vars

\* Two runs of the same profile: the first resolved the name, the second
\* found the handle and used it on a session that no longer has the name.
C16_Witness ==
    /\ psess.connected
    /\ psess.exec_profile_map = {}
    /\ \E r1, r2 \in DOMAIN runs :
           /\ r1 < r2
           /\ runs[r1].exec_profile # None
           /\ runs[r2].exec_profile = runs[r1].exec_profile
           /\ runs[r1].seen = "Unresolved"
           /\ runs[r1].handle = "p"
           /\ runs[r2].seen = "Resolved"
           /\ runs[r2].pc = "done"
           /\ runs[r2].handle = "p"

\* C17: setting the null name returns CASS_OK and leaves the handle without
\* a profile, whatever it held; an execution called on a handle without a
\* profile carries none, goes on without a profile handle, and so runs
\* under the session's default profile.
C17_NullNameClearsProfile ==
    /\ [][NullNameSet =>
            /\ ph'.call[1].ret = CASS_OK
            /\ ph'.exec_profile = None]_vars
    /\ [][(ExecuteCalled /\ ph.exec_profile = None) =>
            runs'[Len(runs')].exec_profile = None]_vars
    /\ [](\A r \in DOMAIN runs :
            (runs[r].exec_profile = None /\ runs[r].result = "CassResultValue") =>
                /\ runs[r].handle = NONE
                /\ runs[r].retry_policy = NONE => runs[r].applied = SessionDefaultPolicy)

\* The handle held a cached profile handle, the null name was set, and the
\* next execution ran under the session default.
C17_Witness ==
    /\ ph.exec_profile = None
    /\ ph.call = SetterCall("set_execution_profile", NONE, CASS_OK)
    /\ \E r1, r2 \in DOMAIN runs :
           /\ r1 < r2
           /\ runs[r1].exec_profile # None
           /\ profs[ProfileOf(r1)].state = "Resolved"
           /\ runs[r1].applied = ProfilePolicy
           /\ runs[r2].exec_profile = None
           /\ runs[r2].result = "CassResultValue"
           /\ runs[r2].applied = SessionDefaultPolicy

MaxArg == 1

\* Arguments of the timeout and interval setters: 0 and some positive values.
TimeoutArgs == 0..MaxArg

\* A null pointer argument.
NULL == "NULL"

\* The process was terminated inside the call.
ABORT == "abort"

\* const char* name arguments: null, the empty string, two proper names.
NameArgs == {NULL, "", "p", "q"}

\* const CassExecProfile* arguments: null and two profiles.
ProfileArgs == {NULL, "v1", "v2"}

\* The names a profile can be registered under.
RegisteredNames == NameArgs \ {NULL, ""}

\* cass_cluster_new: the defaults of the session builder (seconds) and of the
\* default execution profile (milliseconds); no profile registered.
ConfStart ==
    /\ conf = [alive |-> TRUE,
               execution_profile_map |-> [n \in RegisteredNames |-> NONE],
               keepalive_interval |-> Some(30),
               keepalive_timeout |-> Some(60),
               request_timeout |-> Some(12000)]
    /\ confCall = [op |-> NONE, name |-> NONE, profile |-> NONE, arg |-> 0,
                   ret |-> NONE]

ConfCall(op, name, profile, arg, ret) ==
    [op |-> op, name |-> name, profile |-> profile, arg |-> arg, ret |-> ret]

\* argconv strlen: 0 for a null pointer, the C string's length otherwise.
strlen(ptr) == IF ptr = NULL \/ ptr = "" THEN 0 ELSE 1

\* ptr_to_cstr_n: str::from_utf8(slice::from_raw_parts(ptr, size)).ok().  The
\* pointer is not tested; slice::from_raw_parts requires it non-null even for
\* size 0, so a null pointer is undefined behaviour: a build without the
\* standard library's precondition checks reads an empty slice, a build with
\* them terminates the process.  The result is the set of possible outcomes:
\* the string read (every input here is valid UTF-8) or ABORT.
ptr_to_cstr_n(ptr, size) ==
    IF ptr = NULL THEN {"", ABORT}
    ELSE IF size = 0 THEN {""}
    ELSE {ptr}

\* name.to_owned().try_into().ok(): an ExecProfileName is a non-empty string;
\* NONE when the conversion fails.
ExecProfileName_try_from(name) ==
    IF name = "" THEN NONE ELSE name

\* The number of profiles registered in a profile map.
MapSize(map) == Cardinality({n \in DOMAIN map : map[n] # NONE})

\* cass_cluster_set_execution_profile and its _n variant: the first computes
\* strlen(name) and calls the second.
cass_cluster_set_execution_profile_n(name, profile) ==
    /\ conf.alive
    /\ \E text \in ptr_to_cstr_n(name, strlen(name)) :
         IF text = ABORT
         THEN /\ conf' = [conf EXCEPT !.alive = FALSE]
              /\ confCall' = ConfCall("set_execution_profile", name, profile,
                                      0, ABORT)
         ELSE LET checked == ExecProfileName_try_from(text)
              IN IF checked = NONE \/ profile = NULL
                 THEN /\ confCall' = ConfCall("set_execution_profile", name,
                                              profile, 0,
                                              CASS_ERROR_LIB_BAD_PARAMS)
                      /\ UNCHANGED conf
                 ELSE /\ conf' = [conf EXCEPT
                             !.execution_profile_map[checked] = profile]
                      /\ confCall' = ConfCall("set_execution_profile", name,
                                              profile, 0, CASS_OK)
    /\ ConfFrame

\* (v > 0).then(|| Duration::from(v)): zero is None.
NonZero(v) == IF v > 0 THEN Some(v) ELSE None

cass_cluster_set_connection_heartbeat_interval(interval_secs) ==
    /\ conf.alive
    /\ conf' = [conf EXCEPT !.keepalive_interval = NonZero(interval_secs)]
    /\ confCall' = ConfCall("set_connection_heartbeat_interval", NONE, NONE,
                            interval_secs, "void")
    /\ ConfFrame

cass_cluster_set_connection_idle_timeout(timeout_secs) ==
    /\ conf.alive
    /\ conf' = [conf EXCEPT !.keepalive_timeout = NonZero(timeout_secs)]
    /\ confCall' = ConfCall("set_connection_idle_timeout", NONE, NONE,
                            timeout_secs, "void")
    /\ ConfFrame

cass_cluster_set_request_timeout(timeout_ms) ==
    /\ conf.alive
    /\ conf' = [conf EXCEPT !.request_timeout = NonZero(timeout_ms)]
    /\ confCall' = ConfCall("set_request_timeout", NONE, NONE, timeout_ms,
                            "void")
    /\ ConfFrame

\* cass_session_execute / cass_session_execute_batch: a request whose handle
\* carries Some(ms) is wrapped in request_with_timeout(ms, ..), which bounds
\* it by Duration::from_millis(ms); None leaves it unwrapped.
request_timeout_bound(request_timeout_ms) ==
    IF request_timeout_ms = None
    THEN [bounded |-> FALSE, millis |-> 0]
    ELSE [bounded |-> TRUE, millis |-> request_timeout_ms[1]]

NextConf ==
    \/ \E name \in NameArgs, profile \in ProfileArgs :
           cass_cluster_set_execution_profile_n(name, profile)
    \/ \E v \in TimeoutArgs : cass_cluster_set_connection_heartbeat_interval(v)
    \/ \E v \in TimeoutArgs : cass_cluster_set_connection_idle_timeout(v)
    \/ \E v \in TimeoutArgs : cass_cluster_set_request_timeout(v)
    \/ \E v \in TimeoutArgs : conf.alive /\ cass_batch_set_request_timeout(v)

(***************************************************************************)
(* Claims about the configuration setters                                  *)
(***************************************************************************)

\* A call of cass_cluster_set_execution_profile(_n) was made in this step.
ProfileSetterCalled ==
    /\ confCall'.op = "set_execution_profile"
    /\ <<conf, confCall>>' # <<conf, confCall>>

\* C23: cass_cluster_set_execution_profile(_n) called with a null or empty
\* name, or with a null profile, returns CASS_ERROR_LIB_BAD_PARAMS and leaves
\* the profile map as it was; called with a proper name and profile it returns
\* CASS_OK, the map then holds the name, and the map has one entry more if the
\* name was new and as many as before if the name was registered already.
C23_SetExecutionProfileChecksArguments ==
    [][ProfileSetterCalled =>
          LET before == conf.execution_profile_map
              after == conf'.execution_profile_map
              call == confCall'
          IN IF call.name \in {NULL, ""} \/ call.profile = NULL
             THEN call.ret = CASS_ERROR_LIB_BAD_PARAMS /\ after = before
             ELSE /\ call.ret = CASS_OK
                  /\ after[call.name] # NONE
                  /\ MapSize(after) = MapSize(before)
                         + (IF before[call.name] = NONE THEN 1 ELSE 0)]_vars

\* The call with a null name ended the process instead of returning.
C23_Witness ==
    /\ confCall.op = "set_execution_profile"
    /\ confCall.name = NULL
    /\ confCall.ret = ABORT
    /\ ~conf.alive

\* Every other case of C23: with a name that is not null the call returns
\* what the claim says and the map changes as the claim says.
C23_NonNullNameChecked ==
    [][ProfileSetterCalled /\ confCall'.name # NULL =>
          LET before == conf.execution_profile_map
              after == conf'.execution_profile_map
              call == confCall'
          IN IF call.name = "" \/ call.profile = NULL
             THEN call.ret = CASS_ERROR_LIB_BAD_PARAMS /\ after = before
             ELSE /\ call.ret = CASS_OK
                  /\ after[call.name] = call.profile
                  /\ MapSize(after) = MapSize(before)
                         + (IF before[call.name] = NONE THEN 1 ELSE 0)]_vars

\* The configuration field a timeout or interval setter of the cluster writes.
FieldOf(op) ==
    CASE op = "set_connection_heartbeat_interval" -> conf.keepalive_interval
      [] op = "set_connection_idle_timeout" -> conf.keepalive_timeout
      [] op = "set_request_timeout" -> conf.request_timeout

ClusterTimeoutSetters ==
    {"set_connection_heartbeat_interval", "set_connection_idle_timeout",
     "set_request_timeout"}

\* C24: the value 0 means 'disabled' for the heartbeat interval, the idle
\* timeout and the request timeout of the cluster and for the request timeout
\* of a batch: after a cluster setter was called with 0 its field is None, and
\* a batch whose request timeout was set to 0 has requests without a bound.
C24_ZeroMeansDisabled ==
    /\ (confCall.op \in ClusterTimeoutSetters /\ confCall.arg = 0)
           => FieldOf(confCall.op) = None
    /\ (batch.timeout # None /\ batch.timeout[1] = 0)
           => ~request_timeout_bound(batch.timeout).bounded

\* cass_batch_set_request_timeout(batch, 0) was called: the handle holds
\* Some(0) and its requests are bounded by a zero duration.
C24_Witness ==
    /\ batch.alive
    /\ batch.timeout = Some(0)
    /\ request_timeout_bound(batch.timeout) = [bounded |-> TRUE, millis |-> 0]

\* The part of C24 about the cluster: 0 given to one of its three setters
\* leaves the field None, a positive value leaves Some of it.
C24_ClusterZeroMeansDisabled ==
    (confCall.op \in ClusterTimeoutSetters)
        => FieldOf(confCall.op) =
               (IF confCall.arg = 0 THEN None ELSE Some(confCall.arg))

(***************************************************************************)
(* Pointer-returning accessors of a result, a row and the schema metadata  *)
(* (query_result.rs, metadata.rs)                                          *)
(***************************************************************************)

\* Bound: the length of the row set, of a row and of the metadata lists.
MaxLen == 2

\* Bound: the largest index given to an accessor (beyond every length).
MaxIndex == MaxLen + 1

\* size_t index arguments.  size_t and usize are both 64 bits wide where the
\* crate builds, so 'index as usize' and index.try_into().unwrap() keep these.
IndexArgs == 0..MaxIndex

\* CassConstPtr::null().
NullPtr == <<>>

\* The call panicked: unwrap() of a None inside an extern "C" function, which
\* ends the process.
Panicked == <<"panic">>

\* A vector of n elements; RefFFI::as_ptr of the element i is <<kind, i>>.
Vec(kind, n) == [i \in 1..n |-> <<kind, i>>]

\* CassTableMeta of create_table_metadata: the partition and clustering key
\* names are names of columns, and columns_metadata has an entry per column.
CassTableMeta(n) ==
    [partition_keys |-> Vec("pk", n),
     clustering_keys |-> Vec("ck", n),
     columns_metadata |-> {<<"pk", i>> : i \in 1..n} \cup
                          {<<"ck", i>> : i \in 1..n} \cup {<<"regular", 1>>}]

\* A CassResult (rows: None for a non-rows result), one CassRow, one
\* CassTableMeta with its views (in the map's iteration order), and one
\* CassMaterializedViewMeta with its columns (in iteration order) and the
\* strong count behind its Weak<CassTableMeta>: 1 while the keyspace's tables
\* map holds the table, 0 once that map is dropped (the tables field of
\* CassKeyspaceMeta is dropped before its views field).
AccStart ==
    /\ \E rows \in {None} \cup {Some(Vec("row", n)) : n \in 0..MaxLen},
          n \in 0..MaxLen, strong \in {0, 1} :
         meta = [rows |-> rows,
                 columns |-> Vec("value", n),
                 table |-> CassTableMeta(n),
                 views |-> Vec("view", n),
                 view_columns |-> Vec("view_column", n),
                 base_table_strong |-> strong]
    /\ accCall = [op |-> NONE, index |-> 0, ret |-> NullPtr]

AccCall(op, index, ret) == [op |-> op, index |-> index, ret |-> ret]

\* The process runs: no call has panicked.
Running == accCall.ret # Panicked

\* slice::get with a check that wraps the index instead of refusing it.
Vec_get_Wrapping(v, index) ==
    IF Len(v) = 0 THEN None ELSE Some(v[(index % Len(v)) + 1])

\* Vec::get(index): Some(&v[index]) for index < len, None otherwise.
Vec_get(v, index) ==
    IF index < Len(v) THEN Some(v[index + 1]) ELSE None

\* Iterator::nth(index) over a map's entries: the entry after index others,
\* None when the iteration ends first.
Iter_nth(entries, index) ==
    IF index < Len(entries) THEN Some(entries[index + 1]) ELSE None

\* 'rows.is_some() || rows.unwrap().is_empty()': with rows present the right
\* operand is not evaluated and first().unwrap() panics on an empty vector;
\* with rows absent the right operand's unwrap() panics.  The final
\* CassConstPtr::null() is never reached.
cass_result_first_row ==
    /\ Running
    /\ accCall' = AccCall("cass_result_first_row", 0,
           IF meta.rows # None
           THEN IF Len(meta.rows[1]) = 0 THEN Panicked ELSE Head(meta.rows[1])
           ELSE Panicked)
    /\ UNCHANGED meta
    /\ AccFrame

cass_row_get_column(index) ==
    /\ Running
    /\ accCall' = AccCall("cass_row_get_column", index,
           LET column_value == Vec_get(meta.columns, index)
           IN IF column_value = None THEN NullPtr ELSE column_value[1])
    /\ UNCHANGED meta
    /\ AccFrame

\* partition_keys.get(index), then columns_metadata.get(column_name).
KeyColumn(keys, index) ==
    LET column_name == Vec_get(keys, index)
    IN IF column_name = None THEN NullPtr
       ELSE IF column_name[1] \in meta.table.columns_metadata
            THEN column_name[1]
            ELSE NullPtr

cass_table_meta_partition_key(index) ==
    /\ Running
    /\ accCall' = AccCall("cass_table_meta_partition_key", index,
                          KeyColumn(meta.table.partition_keys, index))
    /\ UNCHANGED meta
    /\ AccFrame

cass_table_meta_clustering_key(index) ==
    /\ Running
    /\ accCall' = AccCall("cass_table_meta_clustering_key", index,
                          KeyColumn(meta.table.clustering_keys, index))
    /\ UNCHANGED meta
    /\ AccFrame

cass_table_meta_materialized_view(index) ==
    /\ Running
    /\ accCall' = AccCall("cass_table_meta_materialized_view", index,
           LET view_meta == Iter_nth(meta.views, index)
           IN IF view_meta = None THEN NullPtr ELSE view_meta[1])
    /\ UNCHANGED meta
    /\ AccFrame

cass_materialized_view_meta_column(index) ==
    /\ Running
    /\ accCall' = AccCall("cass_materialized_view_meta_column", index,
           LET column_entry == Iter_nth(meta.view_columns, index)
           IN IF column_entry = None THEN NullPtr ELSE column_entry[1])
    /\ UNCHANGED meta
    /\ AccFrame

\* Weak::upgrade(): Some(Arc) while the strong count is not zero.
Weak_upgrade(strong) == IF strong > 0 THEN Some(<<"table", 1>>) ELSE None

\* base_table.upgrade().unwrap().as_ref(): the unwrap panics on None.
cass_materialized_view_meta_base_table ==
    /\ Running
    /\ accCall' = AccCall("cass_materialized_view_meta_base_table", 0,
           LET table == Weak_upgrade(meta.base_table_strong)
           IN IF table = None THEN Panicked ELSE table[1])
    /\ UNCHANGED meta
    /\ AccFrame

NextAcc ==
    \/ cass_result_first_row
    \/ \E index \in IndexArgs : cass_row_get_column(index)
    \/ \E index \in IndexArgs : cass_table_meta_partition_key(index)
    \/ \E index \in IndexArgs : cass_table_meta_clustering_key(index)
    \/ \E index \in IndexArgs : cass_table_meta_materialized_view(index)
    \/ \E index \in IndexArgs : cass_materialized_view_meta_column(index)
    \/ cass_materialized_view_meta_base_table

(***************************************************************************)
(* Claims about the accessors                                              *)
(***************************************************************************)

\* C25: cass_result_first_row never faults: it returns null for a result
\* without rows and for an empty row set, and the pointer to row 0 otherwise.
C25_FirstRowNeverFaults ==
    accCall.op = "cass_result_first_row" =>
        accCall.ret = (IF meta.rows = None \/ meta.rows = Some(<<>>)
                       THEN NullPtr
                       ELSE <<"row", 1>>)

\* cass_result_first_row was called on a result without rows, or on an empty
\* row set, and panicked.
C25_Witness ==
    /\ accCall.op = "cass_result_first_row"
    /\ meta.rows = None \/ meta.rows = Some(<<>>)
    /\ accCall.ret = Panicked

\* What of C25 the code does: the pointer to row 0 of a row set that is not
\* empty.
C25_FirstRowOfNonEmpty ==
    (accCall.op = "cass_result_first_row" /\ meta.rows # None
         /\ meta.rows # Some(<<>>))
        => accCall.ret = <<"row", 1>>

\* The list an indexed accessor reads.
ListOf(op) ==
    CASE op = "cass_row_get_column" -> meta.columns
      [] op = "cass_table_meta_partition_key" -> meta.table.partition_keys
      [] op = "cass_table_meta_clustering_key" -> meta.table.clustering_keys
      [] op = "cass_table_meta_materialized_view" -> meta.views
      [] op = "cass_materialized_view_meta_column" -> meta.view_columns

IndexedAccessors ==
    {"cass_row_get_column", "cass_table_meta_partition_key",
     "cass_table_meta_clustering_key", "cass_table_meta_materialized_view",
     "cass_materialized_view_meta_column"}

\* C26: cass_row_get_column, cass_table_meta_partition_key,
\* cass_table_meta_clustering_key, cass_table_meta_materialized_view and
\* cass_materialized_view_meta_column return null for an index that is not
\* smaller than the length, and the pointer to the element at the index for a
\* smaller one; they never fault.
C26_IndexOutOfRangeIsNull ==
    accCall.op \in IndexedAccessors =>
        LET list == ListOf(accCall.op)
        IN IF accCall.index >= Len(list)
           THEN accCall.ret = NullPtr
           ELSE accCall.ret = list[accCall.index + 1]

\* An accessor was called on a list of MaxLen elements with the index MaxLen,
\* the first one out of range, and returned null.
C26_Witness ==
    /\ accCall.op \in IndexedAccessors
    /\ Len(ListOf(accCall.op)) = MaxLen
    /\ accCall.index = MaxLen
    /\ accCall.ret = NullPtr

C27_BaseTableWhileOwnerAlive ==
    (accCall.op = "cass_materialized_view_meta_base_table"
         /\ meta.base_table_strong > 0)
        => accCall.ret = <<"table", 1>>

(***************************************************************************)
(* Tagged pointers and the four ownership disciplines (argconv.rs:         *)
(* CassConstPtr, CassMutPtr, BoxFFI, ArcFFI, RcFFI, RefFFI)                *)
(***************************************************************************)

Traits == {"BoxFFI", "ArcFFI", "RcFFI", "RefFFI"}

\* The disciplines whose pointer owns (a share of) the object.
OwningTraits == {"BoxFFI", "ArcFFI", "RcFFI"}

\* The disciplines with a reference count.
CountedTraits == {"ArcFFI", "RcFFI"}

\* The disciplines that hand out a mutable reference.
MutableTraits == {"BoxFFI", "RefFFI"}

\* The address of the one object of each discipline: Box::into_raw,
\* Arc::into_raw, Rc::into_raw and a reference are never the null address 0.
Addr(T) ==
    CASE T = "BoxFFI" -> 1 [] T = "ArcFFI" -> 2 [] T = "RcFFI" -> 3
      [] T = "RefFFI" -> 4

\* The object of a RefFFI type is owned elsewhere and lives throughout; the
\* objects of the owning disciplines are made by into_ptr.
PtrStart ==
    /\ mem = [T \in Traits |->
                [strong |-> IF T = "RefFFI" THEN 1 ELSE 0,
                 callerPtrs |-> 0, owned |-> 0, destroyed |-> 0]]
    /\ ptrCall = [trait |-> NONE, op |-> NONE, arg |-> 0, ret |-> NONE,
                  ptr |-> 0, deref |-> FALSE]

PtrCall(T, op, arg, ret, ptr, deref) ==
    [trait |-> T, op |-> op, arg |-> arg, ret |-> ret, ptr |-> ptr,
     deref |-> deref]

\* A tagged pointer read without its null niche: every bit pattern is Some.
CassPtr_NoNiche(raw) == Some(raw)

\* CassConstPtr / CassMutPtr are repr(transparent) over Option<NonNull<T>>:
\* the null address is None, any other address is Some; CassConstPtr::new
\* and CassMutPtr::new build the same with NonNull::new.  into_raw_ptr gives
\* this Option back as Option<*const T>.
CassPtr(raw) == IF raw = 0 THEN None ELSE Some(raw)

\* The raw address of a tagged pointer.
RawOf(ptr) == IF ptr = None THEN 0 ELSE ptr[1]

\* Every address a pointer argument can hold.
RawPointers == {0} \cup {Addr(T) : T \in Traits}

\* The pointers the caller can pass: null, and the object's address while
\* the caller has a pointer to it (a borrowed one for RefFFI).
PtrArgs(T) ==
    {0} \cup (IF T = "RefFFI" \/ mem[T].callerPtrs > 0 THEN {Addr(T)} ELSE {})

\* Dropping one owner of the object: the last one destroys it.
DropOne(o) ==
    [o EXCEPT !.strong = @ - 1,
              !.destroyed = IF o.strong - 1 = 0 THEN @ + 1 ELSE @]

into_ptr(T) ==
    /\ T \in OwningTraits
    /\ mem[T].strong = 0 /\ mem[T].destroyed = 0
    /\ mem' = [mem EXCEPT ![T] = [@ EXCEPT !.strong = 1, !.callerPtrs = 1]]
    /\ ptrCall' = PtrCall(T, "into_ptr", 0, "ptr", RawOf(CassPtr(Addr(T))),
                          FALSE)
    /\ PtrFrame

\* ptr.into_raw_ptr().map(|p| Box::from_raw(p)): the caller's pointer becomes
\* an owner on the Rust side.
from_ptr(T, raw) ==
    /\ raw \in PtrArgs(T)
    /\ T \in OwningTraits
    /\ mem' = IF CassPtr(raw) = None
              THEN mem
              ELSE [mem EXCEPT ![T] = [@ EXCEPT !.callerPtrs = @ - 1,
                                                !.owned = @ + 1]]
    /\ ptrCall' = IF CassPtr(raw) = None
                  THEN PtrCall(T, "from_ptr", raw, "None", 0, FALSE)
                  ELSE PtrCall(T, "from_ptr", raw, "Some", 0, FALSE)
    /\ PtrFrame

\* let ptr = ptr.into_raw_ptr()?; increment_strong_count(ptr); from_raw(ptr).
cloned_from_ptr(T, raw) ==
    /\ raw \in PtrArgs(T)
    /\ T \in CountedTraits
    /\ mem[T].owned < MaxClones
    /\ mem' = IF CassPtr(raw) = None
              THEN mem
              ELSE [mem EXCEPT ![T] = [@ EXCEPT !.strong = @ + 1,
                                                !.owned = @ + 1]]
    /\ ptrCall' = IF CassPtr(raw) = None
                  THEN PtrCall(T, "cloned_from_ptr", raw, "None", 0, FALSE)
                  ELSE PtrCall(T, "cloned_from_ptr", raw, "Some", 0, TRUE)
    /\ PtrFrame

\* ptr.into_raw_ptr().map(|p| p.as_ref().unwrap_unchecked()).
as_ref(T, raw) ==
    /\ raw \in PtrArgs(T)
    /\ ptrCall' = IF CassPtr(raw) = None
                  THEN PtrCall(T, "as_ref", raw, "None", 0, FALSE)
                  ELSE PtrCall(T, "as_ref", raw, "Some", 0, TRUE)
    /\ UNCHANGED mem
    /\ PtrFrame

\* ptr.into_raw_ptr().map(|p| p.as_mut().unwrap_unchecked()).
as_mut_ref(T, raw) ==
    /\ raw \in PtrArgs(T)
    /\ T \in MutableTraits
    /\ ptrCall' = IF CassPtr(raw) = None
                  THEN PtrCall(T, "as_mut_ref", raw, "None", 0, FALSE)
                  ELSE PtrCall(T, "as_mut_ref", raw, "Some", 0, TRUE)
    /\ UNCHANGED mem
    /\ PtrFrame

\* std::mem::drop(from_ptr(ptr)): nothing to drop for None.
free(T, raw) ==
    /\ raw \in PtrArgs(T)
    /\ T \in OwningTraits
    /\ mem' = IF CassPtr(raw) = None
              THEN mem
              ELSE [mem EXCEPT ![T] = [DropOne(@) EXCEPT !.callerPtrs = @ - 1]]
    /\ ptrCall' = IF CassPtr(raw) = None
                  THEN PtrCall(T, "free", raw, "unit", 0, FALSE)
                  ELSE PtrCall(T, "free", raw, "unit", 0, TRUE)
    /\ PtrFrame

\* An owner obtained with from_ptr or cloned_from_ptr goes out of scope.
DropOwned(T) ==
    /\ mem[T].owned > 0
    /\ mem' = [mem EXCEPT ![T] = [DropOne(@) EXCEPT !.owned = @ - 1]]
    /\ ptrCall' = PtrCall(T, "drop", 0, "unit", 0, TRUE)
    /\ PtrFrame

NextPtr ==
    \/ \E T \in Traits : into_ptr(T)
    \/ \E T \in Traits, raw \in RawPointers : from_ptr(T, raw)
    \/ \E T \in Traits, raw \in RawPointers : cloned_from_ptr(T, raw)
    \/ \E T \in Traits, raw \in RawPointers : as_ref(T, raw)
    \/ \E T \in Traits, raw \in RawPointers : as_mut_ref(T, raw)
    \/ \E T \in Traits, raw \in RawPointers : free(T, raw)
    \/ \E T \in Traits : DropOwned(T)

(***************************************************************************)
(* Claims about the tagged pointers                                        *)
(***************************************************************************)

\* The operations that take a tagged pointer.
PointerTakingOps == {"as_ref", "as_mut_ref", "from_ptr", "cloned_from_ptr", "free"}

\* An operation was called on a null pointer in this step.
CalledOnNull ==
    /\ <<mem, ptrCall>>' # <<mem, ptrCall>>
    /\ ptrCall'.op \in PointerTakingOps
    /\ ptrCall'.arg = 0

\* C28: in BoxFFI, ArcFFI, RcFFI and RefFFI a null tagged pointer is 'absent':
\* as_ref, as_mut_ref, from_ptr and cloned_from_ptr return None for it, without
\* a dereference and without a change of a reference count; free of it does
\* nothing; and into_ptr never returns null.
C28_NullPointerIsAbsent ==
    /\ [][CalledOnNull =>
            /\ mem' = mem
            /\ ~ptrCall'.deref
            /\ ptrCall'.ret = (IF ptrCall'.op = "free" THEN "unit" ELSE "None")]_vars
    /\ [](ptrCall.op = "into_ptr" => ptrCall.ptr # 0)

\* cloned_from_ptr got a null pointer while a counted object with a caller's
\* pointer and a clone existed: it returned None.
C28_Witness ==
    /\ ptrCall.op = "cloned_from_ptr"
    /\ ptrCall.arg = 0
    /\ ptrCall.ret = "None"
    /\ mem[ptrCall.trait].strong = 2
    /\ mem[ptrCall.trait].callerPtrs = 1

(***************************************************************************)
(* Lifetime of the session object against its futures (session.rs:         *)
(* cass_session_new, cass_session_free and the futures of connect, close,  *)
(* execute, execute_batch and prepare)                                     *)
(***************************************************************************)

\* Bound: futures made on the session.
MaxPending == 2

\* The operations that make a future which uses the session.
SessionFutureKinds == {"connect", "close", "execute", "execute_batch", "prepare"}

\* ptr_to_ref(session_raw): a &'static RwLock<..> made from the raw pointer;
\* the strong count of the Arc is not touched.
ptr_to_ref(strong) == strong

\* cass_session_new: Arc::new(RwLock::new(None)), Arc::into_raw: one strong
\* reference, owned by the caller's pointer.
LifeStart ==
    /\ sobj = [strong |-> 1, destroyed |-> FALSE, callerPtr |-> TRUE,
               crashed |-> FALSE]
    /\ pend = <<>>

\* cass_session_connect, cass_session_close, cass_session_execute,
\* cass_session_execute_batch, cass_session_prepare: session_opt =
\* ptr_to_ref(session_raw) is moved into the async block given to
\* CassFuture::make_raw; the block has not taken the lock yet.
CassFuture_make_raw(kind) ==
    /\ sobj.callerPtr
    /\ ~sobj.crashed
    /\ Len(pend) < MaxPending
    /\ sobj' = [sobj EXCEPT !.strong = ptr_to_ref(@)]
    /\ pend' = Append(pend, [kind |-> kind, pc |-> "pending",
                             counted |-> ptr_to_ref(sobj.strong) # sobj.strong,
                             met |-> NONE])
    /\ LifeFrame

\* cass_session_free: free_arced drops the Arc of the caller's pointer; the
\* RwLock and its slot are destroyed when that was the last strong reference.
cass_session_free ==
    /\ sobj.callerPtr
    /\ ~sobj.crashed
    /\ sobj' = [sobj EXCEPT !.strong = @ - 1,
                            !.destroyed = (sobj.strong - 1 = 0),
                            !.callerPtr = FALSE]
    /\ UNCHANGED pend
    /\ LifeFrame

\* The runtime polls the future i to its end: session_opt.write().await or
\* session_opt.read().await, the slot is read or written, the guard dropped.
\* On a destroyed session this is a use of freed memory, undefined behaviour:
\* the process faults, or the freed memory is used as if it were the lock.
SessionFutureRun(i) ==
    /\ ~sobj.crashed
    /\ pend[i].pc = "pending"
    /\ IF sobj.destroyed
         THEN \E outcome \in {"fault", "freed memory used"} :
                /\ pend' = [pend EXCEPT ![i].pc = "done", ![i].met = outcome]
                /\ sobj' = [sobj EXCEPT !.crashed = (outcome = "fault")]
         ELSE /\ pend' = [pend EXCEPT ![i].pc = "done", ![i].met = "session"]
              /\ sobj' = [sobj EXCEPT
                     !.strong = IF pend[i].counted THEN @ - 1 ELSE @,
                     !.destroyed = pend[i].counted /\ sobj.strong - 1 = 0]
    /\ LifeFrame

NextLife ==
    \/ \E kind \in SessionFutureKinds : CassFuture_make_raw(kind)
    \/ cass_session_free
    \/ \E i \in 1..MaxPending : i \in DOMAIN pend /\ SessionFutureRun(i)

(***************************************************************************)
(* Claims about the lifetime of the session                                *)
(***************************************************************************)

\* C33: a future made by connect, close, execute, execute_batch or prepare
\* keeps the session alive while it has not completed: cass_session_free does
\* not destroy the lock and the slot before the future completes, and no
\* future ever meets a destroyed session.
C33_PendingFutureKeepsSessionAlive ==
    /\ (\E i \in DOMAIN pend : pend[i].pc = "pending") => ~sobj.destroyed
    /\ \A i \in DOMAIN pend : pend[i].pc = "done" => pend[i].met = "session"

\* cass_session_free was called while a future was pending; the future then
\* ran on the destroyed session.
C33_Witness ==
    /\ sobj.destroyed
    /\ ~sobj.callerPtr
    /\ \E i \in DOMAIN pend :
           pend[i].pc = "done" /\ pend[i].met \in {"fault", "freed memory used"}

\* What holds: the session is destroyed by cass_session_free and by nothing
\* else, exactly when the caller gives up its pointer.
C33_DestroyedByFreeOnly ==
    sobj.destroyed <=> ~sobj.callerPtr

(***************************************************************************)
(* Contact points of the cluster (cluster.rs: cluster_set_contact_points)  *)
(***************************************************************************)

\* Bound: calls of cass_cluster_set_contact_points(_n).
MaxCpCalls == 3

\* A byte that is not valid UTF-8.
BadByte == "xFF"

\* The arguments, as sequences of characters: empty, only commas, only
\* blanks, one and two hosts, blanks around hosts, repeated and trailing
\* commas, a blank piece among hosts, and two that are not valid UTF-8.
ContactPointArgs ==
    { <<>>, <<",">>, <<",", ",">>, <<" ">>, <<" ", ",", " ">>,
      <<"a">>, <<"a", ",", "b">>, <<" ", "a", " ">>, <<"a", ",", ",", "b">>,
      <<"b", ",">>, <<"a", ",", " ">>, <<BadByte>>, <<"a", ",", BadByte>> }

\* std::str::from_utf8(..).ok(): None for bytes that are not UTF-8.
from_utf8(bytes) ==
    IF \E k \in 1..Len(bytes) : bytes[k] = BadByte THEN None ELSE Some(bytes)

\* str::split(','): the pieces between the commas, empty ones included.
RECURSIVE split(_)
split(s) ==
    IF \A k \in 1..Len(s) : s[k] # "," THEN <<s>>
    ELSE LET k == CHOOSE k \in 1..Len(s) :
                      s[k] = "," /\ \A j \in 1..(k - 1) : s[j] # ","
         IN <<SubSeq(s, 1, k - 1)>> \o split(SubSeq(s, k + 1, Len(s)))

\* str::trim(): the blanks at both ends removed.
RECURSIVE trim(_)
trim(s) ==
    IF s = <<>> THEN s
    ELSE IF Head(s) = " " THEN trim(Tail(s))
    ELSE IF s[Len(s)] = " " THEN trim(SubSeq(s, 1, Len(s) - 1))
    ELSE s

is_empty(s) == s = <<>>

\* The pieces kept by a filter applied after trimming them.
NonEmptyPieces_Trimmed(s) ==
    LET NotEmpty(p) == ~is_empty(trim(p)) IN SelectSeq(split(s), NotEmpty)

\* .split(',').filter(|s| !s.is_empty()): the pieces that are not empty, as
\* they stand (not trimmed).
NonEmptyPieces(s) ==
    LET NotEmpty(p) == ~is_empty(p) IN SelectSeq(split(s), NotEmpty)

\* .map(|cp| cp.trim().to_string()).filter(|cp| !cp.is_empty()).
TrimmedHosts(pieces) ==
    LET NotEmpty(p) == ~is_empty(p)
    IN SelectSeq([i \in 1..Len(pieces) |-> trim(pieces[i])], NotEmpty)

\* cass_cluster_new: contact_points: Vec::new().
CpStart ==
    /\ contact_points = <<>>
    /\ cpCalls = <<>>

\* cass_cluster_set_contact_points and its _n variant, through
\* cluster_set_contact_points.
cass_cluster_set_contact_points_n(arg) ==
    /\ Len(cpCalls) < MaxCpCalls
    /\ LET text == from_utf8(arg) IN
       IF text = None
       THEN /\ cpCalls' = Append(cpCalls, [arg |-> arg,
                                           ret |-> CASS_ERROR_LIB_BAD_PARAMS])
            /\ UNCHANGED contact_points
       ELSE LET pieces == NonEmptyPieces(text[1]) IN
            /\ cpCalls' = Append(cpCalls, [arg |-> arg, ret |-> CASS_OK])
            /\ contact_points' =
                   IF pieces = <<>> \/ is_empty(Head(pieces))
                   THEN <<>>
                   ELSE contact_points \o TrimmedHosts(pieces)
    /\ CpFrame

NextCp ==
    \E arg \in ContactPointArgs : cass_cluster_set_contact_points_n(arg)

(***************************************************************************)
(* Claims about the contact points                                         *)
(***************************************************************************)

\* The argument is valid UTF-8.
ValidText(arg) == \A k \in 1..Len(arg) : arg[k] # BadByte

\* The argument holds no token: it is empty or made of commas only.
HoldsNoToken(arg) == \A k \in 1..Len(arg) : arg[k] = ","

\* The tokens of an argument: its comma-separated parts, trimmed, without the
\* empty ones.
TokensOf(arg) ==
    LET parts == split(arg)
        NotEmpty(p) == p # <<>>
    IN SelectSeq([i \in 1..Len(parts) |-> trim(parts[i])], NotEmpty)

\* The tokens, in order, of the valid calls made after the last call that
\* held no token.
RECURSIVE TokensSinceClear(_)
TokensSinceClear(calls) ==
    IF calls = <<>> THEN <<>>
    ELSE LET last == calls[Len(calls)].arg
             before == SubSeq(calls, 1, Len(calls) - 1)
         IN IF ~ValidText(last) THEN TokensSinceClear(before)
            ELSE IF HoldsNoToken(last) THEN <<>>
            ELSE TokensSinceClear(before) \o TokensOf(last)

\* C34: after any sequence of cass_cluster_set_contact_points(_n) calls the
\* list of contact points is, in order, the trimmed non-empty comma-separated
\* tokens of all calls made since the last call whose argument was empty or
\* made of commas only, which clears the list; a call appends and never
\* overwrites; an argument that is not UTF-8 returns
\* CASS_ERROR_LIB_BAD_PARAMS and leaves the list as it was.
C34_ContactPointsAccumulate ==
    /\ contact_points = TokensSinceClear(cpCalls)
    /\ \A k \in 1..Len(cpCalls) :
           cpCalls[k].ret = (IF ValidText(cpCalls[k].arg)
                             THEN CASS_OK
                             ELSE CASS_ERROR_LIB_BAD_PARAMS)

\* Hosts were set, a call with blanks only and one that is not UTF-8 left
\* them, and a later call appended one more.
C34_Witness ==
    /\ Len(cpCalls) = 3
    /\ cpCalls[1].arg = <<"a", ",", ",", "b">>
    /\ cpCalls[2].arg = <<" ", ",", " ">>
    /\ cpCalls[3].arg = <<" ", "a", " ">>
    /\ contact_points = << <<"a">>, <<"b">>, <<"a">> >>

(***************************************************************************)
(* The batch handle through its calls (batch.rs): what each call returns   *)
(* and what it leaves of the inner state, of the handle and of the states  *)
(* held by requests in flight                                              *)
(***************************************************************************)

\* Bound: calls made on the batch and statement handles.
MaxBatchCalls == 3

\* Bound: requests in flight that hold the state of the batch.
MaxSnaps == 1

\* The sets of values a statement may have bound (0: nothing bound yet).
BoundValueSets == {1, 2}

\* After cass_batch_new and cass_statement_new.
BcStart ==
    /\ bcHeap = <<[rc |-> 1, st |-> EmptyBatchState]>>
    /\ bcBatch = [state |-> 1, timeout |-> None]
    /\ bcStmt = [query |-> "q1", bound |-> 0]
    /\ bcSnaps = <<>>
    /\ bcCall = [op |-> NONE, arg |-> NONE, ret |-> NONE]
    /\ bcN = 0

\* Arc::make_mut(&mut batch.state), then the write: a state shared with a
\* request is cloned first and the handle moves to the clone.
WriteState(st2) ==
    LET nid == MakeMutId(bcHeap, bcBatch.state) IN
    /\ bcHeap' = [MakeMutHeap(bcHeap, bcBatch.state) EXCEPT ![nid].st = st2]
    /\ bcBatch' = [bcBatch EXCEPT !.state = nid]

\* The conversion is skipped: any CassConsistency is taken as it is.
try_into_Unchecked(c) == Some(c)

\* consistency.try_into().ok()
try_into(c) == IF ValidConsistency(c) THEN Some(c) ELSE None

\* The call made and its return value.
Called(op, arg, ret) ==
    /\ bcN < MaxBatchCalls
    /\ bcN' = bcN + 1
    /\ bcCall' = [op |-> op, arg |-> arg, ret |-> ret]

SetConsistency(c) ==
    /\ LET consistency == try_into(c) IN
       IF consistency = None
       THEN /\ Called("cass_batch_set_consistency", c, CASS_ERROR_LIB_BAD_PARAMS)
            /\ UNCHANGED <<bcHeap, bcBatch>>
       ELSE /\ Called("cass_batch_set_consistency", c, CASS_OK)
            /\ WriteState([bcHeap[bcBatch.state].st EXCEPT
                              !.consistency = consistency[1]])
    /\ UNCHANGED <<bcStmt, bcSnaps>>
    /\ BcFrame

SetSerialConsistency(c) ==
    /\ LET serial_consistency == try_into(c) IN
       IF serial_consistency = None
       THEN /\ Called("cass_batch_set_serial_consistency", c, CASS_ERROR_LIB_BAD_PARAMS)
            /\ UNCHANGED <<bcHeap, bcBatch>>
       ELSE /\ Called("cass_batch_set_serial_consistency", c, CASS_OK)
            /\ WriteState([bcHeap[bcBatch.state].st EXCEPT
                              !.serial_consistency = serial_consistency[1]])
    /\ UNCHANGED <<bcStmt, bcSnaps>>
    /\ BcFrame

\* A push that is made only for a statement that has values bound.
push_NonEmptyOnly(bound_values, st) ==
    IF st.bound = 0 THEN bound_values ELSE Append(bound_values, st.bound)

\* state.bound_values.push(statement.bound_values.clone()): a copy of the
\* values bound at the call, also when nothing is bound.
push(bound_values, st) == Append(bound_values, st.bound)

\* cass_batch_add_statement: the query is appended to the batch and the
\* statement's bound values to bound_values.
AddStatement ==
    /\ Called("cass_batch_add_statement", bcStmt.bound, CASS_OK)
    /\ WriteState([bcHeap[bcBatch.state].st EXCEPT
                      !.statements = Append(@, bcStmt.query),
                      !.bound_values = push(@, bcStmt)])
    /\ UNCHANGED <<bcStmt, bcSnaps>>
    /\ BcFrame

\* A value is bound in the statement handle.
BindValues(v) ==
    /\ v # bcStmt.bound
    /\ Called("cass_statement_bind", v, CASS_OK)
    /\ bcStmt' = [bcStmt EXCEPT !.bound = v]
    /\ UNCHANGED <<bcHeap, bcBatch, bcSnaps>>
    /\ BcFrame

\* cass_session_execute_batch: let mut state = batch_from_raw.state.clone().
TakeSnapshot ==
    /\ Len(bcSnaps) < MaxSnaps
    /\ bcHeap' = ArcClone(bcHeap, bcBatch.state)
    /\ bcSnaps' = Append(bcSnaps, bcBatch.state)
    /\ UNCHANGED <<bcBatch, bcStmt, bcCall, bcN>>
    /\ BcFrame

\* The request ends and drops its Arc.
DropSnapshot(k) ==
    /\ k \in DOMAIN bcSnaps
    /\ bcSnaps[k] # 0
    /\ bcHeap' = ArcRelease(bcHeap, bcSnaps[k])
    /\ bcSnaps' = [bcSnaps EXCEPT ![k] = 0]
    /\ UNCHANGED <<bcBatch, bcStmt, bcCall, bcN>>
    /\ BcFrame

NextBc ==
    \/ \E c \in ConsistencyInputs : SetConsistency(c)
    \/ \E c \in SerialConsistencyInputs : SetSerialConsistency(c)
    \/ AddStatement
    \/ \E v \in BoundValueSets : BindValues(v)
    \/ TakeSnapshot
    \/ \E k \in 1..MaxSnaps : DropSnapshot(k)

(***************************************************************************)
(* Claims about the calls on the batch handle                              *)
(***************************************************************************)

\* The blocks that are still held by the handle or by a request.
LiveStates == {id \in DOMAIN bcHeap : bcHeap[id].rc > 0}

SnapshotOutstanding == \E k \in DOMAIN bcSnaps : bcSnaps[k] # 0

\* C35: cass_batch_set_consistency and cass_batch_set_serial_consistency
\* called with a value that is not a valid consistency return
\* CASS_ERROR_LIB_BAD_PARAMS and leave the batch untouched: the contents of
\* the inner state and the allocation the handle points to are the same
\* after the call, also while a request holds a snapshot of the state.
C35_InvalidConsistencyLeavesBatch ==
    [][(/\ bcN' = bcN + 1
        /\ bcCall'.op \in {"cass_batch_set_consistency",
                           "cass_batch_set_serial_consistency"}
        /\ ~ValidConsistency(bcCall'.arg))
       => /\ bcCall'.ret = CASS_ERROR_LIB_BAD_PARAMS
          /\ bcBatch' = bcBatch
          /\ bcHeap' = bcHeap
          /\ bcSnaps' = bcSnaps]_vars

\* An invalid consistency was refused while a request held the state the
\* handle points to, after a valid one had been set.
C35_Witness ==
    /\ bcCall.op = "cass_batch_set_serial_consistency"
    /\ bcCall.ret = CASS_ERROR_LIB_BAD_PARAMS
    /\ SnapshotOutstanding
    /\ bcHeap[bcBatch.state].rc = 2
    /\ bcHeap[bcBatch.state].st.consistency = "QUORUM"

(***************************************************************************)
\* bound_values of block id before the step is a prefix of it after the step.
KeepsEntries(id) ==
    LET old == bcHeap[id].st.bound_values
        new == bcHeap'[id].st.bound_values
    IN Len(old) <= Len(new) /\ SubSeq(new, 1, Len(old)) = old

\* C36: in every reachable state, in the state of the handle and in every
\* state held by a request, bound_values has as many entries as the batch has
\* statements; the entry pushed by cass_batch_add_statement is the set of
\* values the statement has bound at that call, and no later step (binding
\* other values in the statement included) changes an entry that is there.
C36_BoundValuesMatchStatements ==
    /\ [](\A id \in LiveStates :
             Len(bcHeap[id].st.bound_values) = Len(bcHeap[id].st.statements))
    /\ [][/\ \A id \in LiveStates :
                bcHeap'[id].rc > 0 => KeepsEntries(id)
          /\ \A k \in DOMAIN bcSnaps :
                (bcSnaps[k] # 0 /\ bcSnaps'[k] = bcSnaps[k])
                    => bcHeap'[bcSnaps[k]].st = bcHeap[bcSnaps[k]].st
          /\ (bcN' = bcN + 1 /\ bcCall'.op = "cass_batch_add_statement")
                => /\ bcHeap'[bcBatch'.state].st.bound_values =
                          Append(bcHeap[bcBatch.state].st.bound_values, bcStmt.bound)
                   /\ bcHeap'[bcBatch'.state].st.statements =
                          Append(bcHeap[bcBatch.state].st.statements, bcStmt.query)
          /\ (bcN' = bcN + 1 /\ bcCall'.op = "cass_statement_bind")
                => bcHeap' = bcHeap]_vars

\* The statement was added with nothing bound while a request held the
\* state, then values were bound in it and it was added again: the request
\* holds no statement, the handle holds two with the values of each call.
C36_Witness ==
    /\ bcN = 3
    /\ bcStmt.bound = 2
    /\ SnapshotOutstanding
    /\ bcHeap[bcSnaps[1]].st.bound_values = <<>>
    /\ bcHeap[bcBatch.state].st.bound_values = <<0, 2>>
    /\ Len(bcHeap[bcBatch.state].st.statements) = 2

(***************************************************************************)
(* Tuples (tuple.rs): the constructors and CassTuple::bind_value           *)
(***************************************************************************)

\* Bound: item count of a tuple.
MaxItems == 2

\* Bound: binds made into the tuple.
MaxBinds == 3

CASS_ERROR_LIB_INDEX_OUT_OF_BOUNDS == "CASS_ERROR_LIB_INDEX_OUT_OF_BOUNDS"
CASS_ERROR_LIB_INVALID_VALUE_TYPE == "CASS_ERROR_LIB_INVALID_VALUE_TYPE"

\* The types of the items of a typed tuple.
ItemTypes == {"int", "text"}

\* Option<CqlValue> as the binders pass it: None of cass_tuple_set_null, or a
\* value of some kind.
BoundValues == {None} \cup {Some(k) : k \in ItemTypes}

\* CassDataTypeInner::Tuple(v) for every v of at most MaxItems types.
TupleTypes == UNION {[1..n -> ItemTypes] : n \in 0..MaxItems}

\* A data type that is not a tuple.
NotATuple == <<"CassDataTypeInner::Value">>

\* size_t indexes, one past the largest item count included.
TupleIndexArgs == 0..(MaxItems + 1)

\* No tuple yet.
TupStart ==
    /\ tup = [made |-> FALSE, data_type |-> None, items |-> <<>>, item_count |-> 0]
    /\ tupCall = [op |-> NONE, index |-> 0, v |-> None, ret |-> NONE]
    /\ tupN = 0

\* cass_tuple_new: vec![None; item_count], no data type.
cass_tuple_new(item_count) ==
    /\ ~tup.made
    /\ tup' = [made |-> TRUE, data_type |-> None,
               items |-> [i \in 1..item_count |-> None],
               item_count |-> item_count]
    /\ tupCall' = [op |-> "cass_tuple_new", index |-> 0, v |-> None, ret |-> "tuple"]
    /\ UNCHANGED tupN
    /\ TupFrame

\* cass_tuple_new_from_data_type: as many empty items as the tuple type has
\* types; a null pointer for a type that is not a tuple.
cass_tuple_new_from_data_type(data_type) ==
    /\ ~tup.made
    /\ tupCall.op = NONE
    /\ IF data_type = NotATuple
       THEN /\ tupCall' = [op |-> "cass_tuple_new_from_data_type", index |-> 0,
                           v |-> None, ret |-> NULL]
            /\ UNCHANGED tup
       ELSE /\ tup' = [made |-> TRUE, data_type |-> Some(data_type),
                       items |-> [i \in 1..Len(data_type) |-> None],
                       item_count |-> Len(data_type)]
            /\ tupCall' = [op |-> "cass_tuple_new_from_data_type", index |-> 0,
                           v |-> None, ret |-> "tuple"]
    /\ UNCHANGED tupN
    /\ TupFrame

\* Every tuple taken as made without a type.
get_types_Untyped(t) == None

\* CassTuple::get_types: the types of a typed tuple.
get_types(t) == t.data_type

\* binding::is_compatible_type: a null fits every type, a value fits the
\* type of its own kind.
is_compatible_type(type, v) == v = None \/ v[1] = type

\* CassTuple::bind_value: the error returned, or CASS_OK.
bind_value_ret(t, index, v) ==
    IF index >= Len(t.items)
    THEN CASS_ERROR_LIB_INDEX_OUT_OF_BOUNDS
    ELSE IF /\ get_types(t) # None
            /\ ~is_compatible_type(get_types(t)[1][index + 1], v)
    THEN CASS_ERROR_LIB_INVALID_VALUE_TYPE
    ELSE CASS_OK

\* cass_tuple_set_*: tuple.bind_value(index, v); the item is written only
\* when the checks pass.
bind_value(index, v) ==
    /\ tup.made
    /\ tupN < MaxBinds
    /\ tupN' = tupN + 1
    /\ LET ret == bind_value_ret(tup, index, v) IN
       /\ tupCall' = [op |-> "bind_value", index |-> index, v |-> v, ret |-> ret]
       /\ tup' = IF ret = CASS_OK
                 THEN [tup EXCEPT !.items[index + 1] = v]
                 ELSE tup
    /\ TupFrame

NextTup ==
    \/ \E n \in 0..MaxItems : cass_tuple_new(n)
    \/ \E dt \in TupleTypes \cup {NotATuple} : cass_tuple_new_from_data_type(dt)
    \/ \E index \in TupleIndexArgs, v \in BoundValues : bind_value(index, v)

(***************************************************************************)
(* Claims about tuples                                                     *)
(***************************************************************************)

\* The step is a bind.
BindStep == tupN' = tupN + 1 /\ tupCall'.op = "bind_value"

\* C37: a bind at an index greater than or equal to the item count returns
\* CASS_ERROR_LIB_INDEX_OUT_OF_BOUNDS; a bind, into a tuple made from a data
\* type, of a value that does not fit the type at that index returns
\* CASS_ERROR_LIB_INVALID_VALUE_TYPE; both leave the tuple as it was; and the
\* tuple has at all times the item count it was made with.
C37_RejectedBindLeavesTuple ==
    /\ [][BindStep =>
            /\ tupCall'.index >= tup.item_count =>
                   /\ tupCall'.ret = CASS_ERROR_LIB_INDEX_OUT_OF_BOUNDS
                   /\ tup' = tup
            /\ (/\ tupCall'.index < tup.item_count
                /\ tup.data_type # None
                /\ tupCall'.v # None
                /\ tupCall'.v[1] # tup.data_type[1][tupCall'.index + 1]) =>
                   /\ tupCall'.ret = CASS_ERROR_LIB_INVALID_VALUE_TYPE
                   /\ tup' = tup]_vars
    /\ [](tup.made => Len(tup.items) = tup.item_count)
    /\ [][tup.made => tup'.item_count = tup.item_count /\ tup'.made]_vars

\* A tuple of (int, text) holds an int after three binds: one accepted, one
\* refused for its type and the last one refused for its index.
C37_Witness ==
    /\ tup.made
    /\ tup.data_type = Some(<<"int", "text">>)
    /\ tup.items = <<Some("int"), None>>
    /\ tupN = 3
    /\ tupCall.index = 2
    /\ tupCall.ret = CASS_ERROR_LIB_INDEX_OUT_OF_BOUNDS

\* A bind of a text into the int item of a typed tuple was refused.
C37_WitnessType ==
    /\ tup.data_type = Some(<<"int", "text">>)
    /\ tupCall.index = 0
    /\ tupCall.v = Some("text")
    /\ tupCall.ret = CASS_ERROR_LIB_INVALID_VALUE_TYPE

(***************************************************************************)
(* The port of the cluster (cluster.rs: cass_cluster_set_port and          *)
(* build_session_builder)                                                  *)
(***************************************************************************)

\* Bound: calls of cass_cluster_set_port and builds of the session builder.
MaxPortCalls == 3

\* The number of values of a u16.
U16Range == 65536

\* c_int arguments: the ends of the 32-bit range, the values around zero,
\* the default, and the values around the largest u16.
PortArgs == {-2147483647 - 1, -1, 0, 1, 9042, 65535, 65536, 65537, 74578, 2147483647}

\* The contact points of the cluster at the build.
PortContactPoints == <<"h1", "h2">>

\* port as u16: the low 16 bits.
as_u16(n) == n % U16Range

\* Display of an integer: its decimal digits.
RECURSIVE to_string(_)
to_string(n) ==
    IF n < 10 THEN <<n>> ELSE Append(to_string(n \div 10), n % 10)

\* format!("{}:{}", cp, cluster.port)
format(cp, p) == <<cp, ":">> \o to_string(p)

\* cass_cluster_new: port: 9042; nothing built yet.
PortStart ==
    /\ port = 9042
    /\ portCall = [arg |-> 0, ret |-> NONE]
    /\ known_nodes = <<>>
    /\ portN = 0
    /\ portBuilds = 0

cass_cluster_set_port(p) ==
    /\ portN + portBuilds < MaxPortCalls
    /\ portN' = portN + 1
    /\ IF p <= 0
       THEN /\ portCall' = [arg |-> p, ret |-> CASS_ERROR_LIB_BAD_PARAMS]
            /\ UNCHANGED port
       ELSE /\ portCall' = [arg |-> p, ret |-> CASS_OK]
            /\ port' = as_u16(p)
    /\ UNCHANGED <<known_nodes, portBuilds>>
    /\ PortFrame

\* build_session_builder: known_nodes is made of every contact point with
\* the cluster's port.
build_session_builder ==
    /\ portN + portBuilds < MaxPortCalls
    /\ portBuilds' = portBuilds + 1
    /\ known_nodes' = [i \in 1..Len(PortContactPoints) |->
                           format(PortContactPoints[i], port)]
    /\ UNCHANGED <<port, portCall, portN>>
    /\ PortFrame

NextPort ==
    \/ \E p \in PortArgs : cass_cluster_set_port(p)
    \/ build_session_builder

(***************************************************************************)
(* Claims about the port                                                   *)
(***************************************************************************)

\* The step is a call of cass_cluster_set_port.
SetPortStep == portN' = portN + 1

\* The step is a build of the session builder.
BuildStep == portBuilds' = portBuilds + 1

\* C38: cass_cluster_set_port rejects a port that is zero or negative with
\* CASS_ERROR_LIB_BAD_PARAMS and leaves the port as it was; for every
\* accepted argument (those above 65535 included) the stored port equals the
\* argument and is never 0, and the nodes given to the session builder carry
\* that port and no other.
C38_StoredPortEqualsArgument ==
    /\ [][SetPortStep =>
            IF portCall'.arg <= 0
            THEN portCall'.ret = CASS_ERROR_LIB_BAD_PARAMS /\ port' = port
            ELSE portCall'.ret = CASS_OK /\ port' = portCall'.arg]_vars
    /\ [](port # 0)
    /\ [][(BuildStep /\ portCall.ret = CASS_OK) =>
            \A i \in 1..Len(known_nodes') :
                known_nodes'[i] = format(PortContactPoints[i], portCall.arg)]_vars

\* The part that holds: a port that is zero or negative is rejected and the
\* port stays, an accepted argument of at most 65535 is stored as it is, and
\* the nodes of a build carry the stored port.
C38_RejectsNonPositive ==
    [][/\ SetPortStep =>
            IF portCall'.arg <= 0
            THEN portCall'.ret = CASS_ERROR_LIB_BAD_PARAMS /\ port' = port
            ELSE /\ portCall'.ret = CASS_OK
                 /\ portCall'.arg < U16Range => port' = portCall'.arg
       /\ BuildStep =>
            \A i \in 1..Len(known_nodes') :
                known_nodes'[i] = format(PortContactPoints[i], port)]_vars

\* 65536 was accepted, the stored port is 0 and a build gave the nodes
\* port 0.
C38_Witness ==
    /\ portCall = [arg |-> 65536, ret |-> CASS_OK]
    /\ port = 0
    /\ known_nodes = << <<"h1", ":", 0>>, <<"h2", ":", 0>> >>

(***************************************************************************)
(* Schema metadata (session.rs: cass_session_get_schema_meta; metadata.rs) *)
(***************************************************************************)

\* Bound: tables of a keyspace.
MaxTables == 3

\* Bound: materialized views of a keyspace.
MaxViews == 2

TableNames == 1..MaxTables
ViewNames == 1..MaxViews

\* A keyspace of the driver: its tables, and its views each with the name of
\* its base table, which is a table of the keyspace.
KeyspaceInfos ==
    UNION {UNION {{[tables |-> T, views |-> f] : f \in [V -> T]}
                  : V \in SUBSET ViewNames}
           : T \in SUBSET TableNames}

\* A second keyspace with one table and one view of it.
OtherKeyspace == [tables |-> {1}, views |-> (1 :> 1)]

\* The cluster data: keyspace "ks1" alone, or with "ks2" next to it.
ClusterDatas ==
    {("ks1" :> k) : k \in KeyspaceInfos}
        \cup {("ks1" :> k) @@ ("ks2" :> OtherKeyspace) : k \in KeyspaceInfos}

\* The orders in which a HashMap of tables may be iterated.
TableOrders ==
    UNION {{s \in [1..n -> TableNames] :
                \A i, j \in 1..n : i # j => s[i] # s[j]}
           : n \in 0..MaxTables}

\* The session is connected; no metadata was asked for yet.
SchemaStart ==
    /\ clusterData \in ClusterDatas
    /\ schemaMeta = None

SchemaIdle ==
    /\ clusterData = ("ks1" :> [tables |-> {}, views |-> <<>>])
    /\ schemaMeta = None

\* CassMaterializedViewMeta { name, view_metadata, base_table:
\* weak_cass_table_meta.clone() }: the view object made while table_name is
\* being built, with a weak reference to that table.
CassMaterializedViewMeta(ks, view_name, table_name) ==
    [name |-> view_name, base_table |-> <<ks, table_name>>]

\* The inner loop: for (view_name, view_metadata) in &keyspace.views, one
\* view object per view, inserted into table_views.
table_views(ks, table_name) ==
    [v \in DOMAIN clusterData[ks].views |->
        CassMaterializedViewMeta(ks, v, table_name)]

\* The loop over the tables in the order given, from position i: each table
\* gets its views, and the same objects are inserted into the keyspace's
\* views, replacing those inserted for the tables before.
RECURSIVE TablesLoop(_, _, _, _, _)
TablesLoop(ks, order, i, tables, views) ==
    IF i > Len(order)
    THEN [name |-> ks, tables |-> tables, views |-> views]
    ELSE LET t == order[i]
             tv == table_views(ks, t)
         IN TablesLoop(ks, order, i + 1,
                       (t :> [name |-> t, views |-> tv]) @@ tables,
                       tv @@ views)

\* Weak::upgrade of a view's base_table in the metadata built: the table,
\* while the keyspace holds it.
base_table_upgrade(schema, view) ==
    LET ks == view.base_table[1]
        t == view.base_table[2]
    IN IF ks \in DOMAIN schema /\ t \in DOMAIN schema[ks].tables
       THEN Some(schema[ks].tables[t])
       ELSE None

\* cass_session_get_schema_meta: every keyspace is built from the cluster
\* data; "ks1" has its tables iterated in the order given.
cass_session_get_schema_meta(order) ==
    /\ {order[i] : i \in 1..Len(order)} = clusterData["ks1"].tables
    /\ schemaMeta' =
           Some([ks \in DOMAIN clusterData |->
                    IF ks = "ks1"
                    THEN TablesLoop(ks, order, 1, <<>>, <<>>)
                    ELSE TablesLoop(ks, <<1>>, 1, <<>>, <<>>)])
    /\ UNCHANGED clusterData
    /\ SchemaFrame

\* cass_schema_meta_free: the metadata is dropped.
cass_schema_meta_free ==
    /\ schemaMeta # None
    /\ schemaMeta' = None
    /\ UNCHANGED clusterData
    /\ SchemaFrame

NextSchema ==
    \/ \E order \in TableOrders : cass_session_get_schema_meta(order)
    \/ cass_schema_meta_free

(***************************************************************************)
(* Claims about the schema metadata                                        *)
(***************************************************************************)

\* Every view in a keyspace's views has a base_table that resolves to a
\* table of the same keyspace whose views hold that same view object.
BackReferencesResolve(schema) ==
    \A ks \in DOMAIN schema :
        \A v \in DOMAIN schema[ks].views :
            LET view == schema[ks].views[v]
                base == base_table_upgrade(schema, view)
            IN /\ base # None
               /\ view.base_table[1] = ks
               /\ v \in DOMAIN base[1].views
               /\ base[1].views[v] = view

\* A view is listed in a table's views only if the table is its base table.
ListedUnderBaseOnly(schema) ==
    \A ks \in DOMAIN schema :
        \A t \in DOMAIN schema[ks].tables :
            \A v \in DOMAIN schema[ks].tables[t].views :
                clusterData[ks].views[v] = t

\* C39: in the schema metadata built by cass_session_get_schema_meta, a
\* materialized view is listed in the views of a table only if that table is
\* the view's base table, and every view in a keyspace's views has a
\* base-table reference that resolves to a table of the same keyspace whose
\* views contain that view.
C39_ViewsUnderTheirBaseTable ==
    schemaMeta # None =>
        /\ ListedUnderBaseOnly(schemaMeta[1])
        /\ BackReferencesResolve(schemaMeta[1])

\* The second half alone, which holds.
C39_BackReferenceResolves ==
    schemaMeta # None => BackReferencesResolve(schemaMeta[1])

\* Tables 1 and 2, view 1 on table 1: the metadata lists view 1 under table 2
\* as well, and the keyspace's view 1 names table 2 as its base.
C39_Witness ==
    /\ clusterData = ("ks1" :> [tables |-> {1, 2}, views |-> (1 :> 1)])
    /\ schemaMeta # None
    /\ 1 \in DOMAIN schemaMeta[1]["ks1"].tables[2].views
    /\ schemaMeta[1]["ks1"].views[1].base_table = <<"ks1", 2>>

(***************************************************************************)
(* Specifications                                                          *)
(***************************************************************************)

\* The fixed state a subsystem rests in while another one is explored.
FutIdle == FutStart /\ ~futExec.timeout
AccIdle == AccStart /\ meta.rows = None /\ meta.columns = <<>> /\ meta.base_table_strong = 1
BatchIdle == BatchStart /\ batch.exec_profile = NONE /\ sess.connected

ArcInit == ArcStart /\ FutIdle /\ BatchIdle /\ IterStart /\ SessStart /\ ProfIdle /\ ConfStart /\ AccIdle /\ PtrStart /\ LifeStart /\ CpStart /\ BcStart /\ TupStart /\ PortStart /\ SchemaIdle
FutInit == FutStart /\ ArcStart /\ BatchIdle /\ IterStart /\ SessStart /\ ProfIdle /\ ConfStart /\ AccIdle /\ PtrStart /\ LifeStart /\ CpStart /\ BcStart /\ TupStart /\ PortStart /\ SchemaIdle
BatchInit == BatchStart /\ ArcStart /\ FutIdle /\ IterStart /\ SessStart /\ ProfIdle /\ ConfStart /\ AccIdle /\ PtrStart /\ LifeStart /\ CpStart /\ BcStart /\ TupStart /\ PortStart /\ SchemaIdle
IterInit == IterStart /\ ArcStart /\ FutIdle /\ BatchIdle /\ SessStart /\ ProfIdle /\ ConfStart /\ AccIdle /\ PtrStart /\ LifeStart /\ CpStart /\ BcStart /\ TupStart /\ PortStart /\ SchemaIdle
SessInit == SessStart /\ ArcStart /\ FutIdle /\ BatchIdle /\ IterStart /\ ProfIdle /\ ConfStart /\ AccIdle /\ PtrStart /\ LifeStart /\ CpStart /\ BcStart /\ TupStart /\ PortStart /\ SchemaIdle
ProfInit == ProfStart /\ ArcStart /\ FutIdle /\ BatchIdle /\ IterStart /\ SessStart /\ ConfStart /\ AccIdle /\ PtrStart /\ LifeStart /\ CpStart /\ BcStart /\ TupStart /\ PortStart /\ SchemaIdle
ConfInit == ConfStart /\ ProfIdle /\ ArcStart /\ FutIdle /\ BatchIdle /\ IterStart /\ SessStart /\ AccIdle /\ PtrStart /\ LifeStart /\ CpStart /\ BcStart /\ TupStart /\ PortStart /\ SchemaIdle
AccInit == AccStart /\ ConfStart /\ ProfIdle /\ ArcStart /\ FutIdle /\ BatchIdle /\ IterStart /\ SessStart /\ PtrStart /\ LifeStart /\ CpStart /\ BcStart /\ TupStart /\ PortStart /\ SchemaIdle
PtrInit == PtrStart /\ AccIdle /\ ConfStart /\ ProfIdle /\ ArcStart /\ FutIdle /\ BatchIdle /\ IterStart /\ SessStart /\ LifeStart /\ CpStart /\ BcStart /\ TupStart /\ PortStart /\ SchemaIdle
LifeInit == LifeStart /\ PtrStart /\ AccIdle /\ ConfStart /\ ProfIdle /\ ArcStart /\ FutIdle /\ BatchIdle /\ IterStart /\ SessStart /\ CpStart /\ BcStart /\ TupStart /\ PortStart /\ SchemaIdle
CpInit == CpStart /\ LifeStart /\ PtrStart /\ AccIdle /\ ConfStart /\ ProfIdle /\ ArcStart /\ FutIdle /\ BatchIdle /\ IterStart /\ SessStart /\ BcStart /\ TupStart /\ PortStart /\ SchemaIdle
BcInit == BcStart /\ CpStart /\ LifeStart /\ PtrStart /\ AccIdle /\ ConfStart /\ ProfIdle /\ ArcStart /\ FutIdle /\ BatchIdle /\ IterStart /\ SessStart /\ TupStart /\ PortStart /\ SchemaIdle
TupInit == TupStart /\ BcStart /\ CpStart /\ LifeStart /\ PtrStart /\ AccIdle /\ ConfStart /\ ProfIdle /\ ArcStart /\ FutIdle /\ BatchIdle /\ IterStart /\ SessStart /\ PortStart /\ SchemaIdle
PortInit == PortStart /\ TupStart /\ BcStart /\ CpStart /\ LifeStart /\ PtrStart /\ AccIdle /\ ConfStart /\ ProfIdle /\ ArcStart /\ FutIdle /\ BatchIdle /\ IterStart /\ SessStart /\ SchemaIdle
SchemaInit == SchemaStart /\ PortStart /\ TupStart /\ BcStart /\ CpStart /\ LifeStart /\ PtrStart /\ AccIdle /\ ConfStart /\ ProfIdle /\ ArcStart /\ FutIdle /\ BatchIdle /\ IterStart /\ SessStart

SpecArc == ArcInit /\ [][NextArc]_vars
SpecFuture == FutInit /\ [][NextFuture]_vars
SpecBatch == BatchInit /\ [][NextBatch]_vars
SpecIter == IterInit /\ [][NextIter]_vars
SpecSession == SessInit /\ [][NextSession]_vars
SpecSessionFair == SessInit /\ [][NextSessionFair]_vars /\ FairSession
SpecProfile == ProfInit /\ [][NextProfile]_vars
SpecConf == ConfInit /\ [][NextConf]_vars
SpecAcc == AccInit /\ [][NextAcc]_vars
SpecPtr == PtrInit /\ [][NextPtr]_vars
SpecLife == LifeInit /\ [][NextLife]_vars
SpecCp == CpInit /\ [][NextCp]_vars
SpecBc == BcInit /\ [][NextBc]_vars
SpecTup == TupInit /\ [][NextTup]_vars
SpecPort == PortInit /\ [][NextPort]_vars
SpecSchema == SchemaInit /\ [][NextSchema]_vars

====
